---- MODULE Spec2Model ----
(***************************************************************************)
(* Model of the state-detection and fare-selection logic of the Air Canada *)
(* Playwright suite: LoadingGuard (state waits), CookieGuard (consent      *)
(* banner), parsePrice and FlightCardComponent (cheapest-fare selection),  *)
(* and BookingFlow (the steps of the smoke tests over the funnel's pages). *)
(*                                                                         *)
(* Texts are sequences of one-character strings.  Prices are kept in cents *)
(* (the pattern of parsePrice captures at most two fraction digits), so    *)
(* 1234.56 is 123456.  Times are milliseconds.                             *)
(***************************************************************************)
EXTENDS Integers, Sequences, FiniteSets, TLC

VARIABLES
    \* ---- parsePrice harness
    text,       \* the argument of parsePrice
    parsed,     \* "idle" before the call, "done" after
    result,     \* the value returned (NoPrice for null)
    \* ---- LoadingGuard.waitForXReady
    wpc,        \* "idle" | "waiting" | "ok" | "failed"
    target,     \* the state waited for
    stage,      \* index of the stage (try block) being waited in
    armStatus,  \* per declared strategy: "idle" | "waiting" | "expired" | "observed"
    attempts,   \* the strategies started by this call, in the order they started
    stageT,     \* ms spent in the current stage
    elapsed,    \* ms spent in the call
    winner,     \* the strategy that observed its signal (0: none)
    werr,       \* the error thrown by the call
    visible,    \* environment: the signals observable now
    \* ---- FlightCardComponent.selectCheapestFare*
    fn,         \* "visible" (selectCheapestFareInVisibleSection) | "legacy" (selectCheapestFare)
    cabin,      \* options.cabin: "none" | "Economy"
    staleScope, \* environment: after the tab click the page still shows the fares of
                \* the cabin displayed before
    cards,      \* environment: the candidates of the page, in document order
    lowestAt,   \* environment: where the first visible "Lowest" text sits
    looseSelect,\* environment: a button whose name contains "select" but is not "Select"
    spc,        \* position in the call
    count,      \* the count read by the call
    idx,        \* loop variable i (1-based: next candidate to sample)
    sampled,    \* per candidate sampled so far: the price extracted (NoPrice: none)
    fareData,   \* the array fareData: <<[cand, price]>>
    clicks,     \* the clicks issued by the call, in order
    policy,     \* which path chose the click target
    serr,       \* the error thrown by the call ("" while none)
    \* ---- CookieGuard.acceptIfPresent, acceptConsentIfPresent
    cfn,        \* "guard" (CookieGuard.acceptIfPresent) | "util" (acceptConsentIfPresent)
    cpc,        \* "idle" | "probe" | "grace" | "done" | "failed"
    scan,       \* the scan (call of tryAcceptOnce) in progress: 0, 1, 2
    loc,        \* index of the locator being waited for
    cT,         \* ms spent in the current wait
    cElapsed,   \* ms spent in the call
    probes,     \* the locators waited for so far: <<[scan, loc]>>
    cclicks,    \* the clicks that landed: <<[scan, loc, on]>>
    graces,     \* how many times waitForTimeout was awaited
    accepted,   \* the value returned by each finished scan
    cret,       \* the value the call returned ("none" while running)
    cerr,       \* the error thrown by the call
    banner,     \* environment: "absent" | "present"
    bannerLocs, \* environment: the locators the banner's accept control matches
    blocked,    \* environment: the matched control is covered or disabled
    pageControl,\* environment: the page has a button of its own named Continue, OK or Yes
    everBanner, \* history: a banner has been present at some time of the call
    navigated,  \* history: a control of the page itself was activated
    closed,     \* the page was closed (test timeout, teardown) during the call
    probesAtAbort, \* history: Len(probes) when the page was closed
    \* ---- successive calls of one state wait
    callNo,     \* history: how many calls of the wait for `target' were made in a row
    steady,     \* history: the signals observable ever since the first of these calls
    \* ---- a state wait against the pages of the booking funnel
    uiPage,     \* environment: the funnel page the browser shows
    url,        \* environment: the path word of the current URL
    rendered,   \* environment: the headings and lists of uiPage have rendered
    okOn,       \* history: the page shown when the wait returned ("none" before)
    \* ---- BookingFlow: the steps of the smoke test, against uiPage
    trip,       \* params.tripType: "return" | "oneway"
    fpc,        \* index of the next step of the flow
    fstatus,    \* "idle" | "running" | "done" | "failed"
    flog,       \* the steps executed, in order: <<[op, arg, on, awaited, res]>>
    pendingNav, \* environment: the page a navigation under way leads to ("none")
    awaited,    \* history: a state wait has completed since the flow's last
                \* navigation-producing action
    \* ---- rollForwardIfPast
    rpc,        \* "idle" | "loop" | "done"
    rIn,        \* the arguments: [year, month, day]
    rNow,       \* new Date(): [year, month, day, ms] (ms since local midnight)
    rTarget,    \* the Date object target: [year, month, day], at local midnight
    rOut,       \* the value returned
    rIters,     \* history: how many times the loop body ran
    \* ---- the sampling loop of selectCheapestFareInVisibleSection over a DOM
    layout,     \* environment: "nested" (the Select sits in a wrapper inside its
                \* card) | "flat" (the Select sits in its card, the cards in a list)
    own,        \* environment: per option, the text of its own card (label, price)
    dpc,        \* "idle" | "sample" | "done"
    di,         \* loop variable i (1-based: next option to sample)
    recorded    \* per option sampled: the price the loop extracted for it

parseVars == <<text, parsed, result>>
waitVars == <<wpc, target, stage, armStatus, attempts, stageT, elapsed, winner, werr, visible>>
selVars == <<fn, cabin, staleScope, cards, lowestAt, looseSelect, spc, count, idx, sampled, fareData,
             clicks, policy, serr>>
cookieVars == <<cfn, cpc, scan, loc, cT, cElapsed, probes, cclicks, graces, accepted, cret,
                cerr, banner, bannerLocs, blocked, pageControl, everBanner, navigated,
                closed, probesAtAbort>>
histVars == <<callNo, steady>>
uiVars == <<uiPage, url, rendered, okOn>>
flowVars == <<trip, fpc, fstatus, flog, pendingNav, awaited>>
rollVars == <<rpc, rIn, rNow, rTarget, rOut, rIters>>
domVars == <<layout, own, dpc, di, recorded>>
moreVars == <<rollVars, domVars>>
auxVars == <<histVars, uiVars, flowVars, moreVars>>
vars == <<parseVars, waitVars, selVars, cookieVars, auxVars>>

----------------------------------------------------------------------------
(* parsePrice                                                               *)

\* null
NoPrice == 0 - 1

Digits == {"0", "1", "2", "3", "4", "5", "6", "7", "8", "9"}

IsDigit(c) == c \in Digits

\* \s of the pattern (the texts of the model hold no other white space)
IsSpace(c) == c = " "

\* the flag i of the pattern: letters compare without case
Fold(c) ==
    CASE c = "c" -> "C"
      [] c = "a" -> "A"
      [] c = "d" -> "D"
      [] c = "u" -> "U"
      [] c = "s" -> "S"
      [] OTHER -> c

DigitVal(c) ==
    CASE c = "0" -> 0 [] c = "1" -> 1 [] c = "2" -> 2 [] c = "3" -> 3 [] c = "4" -> 4
      [] c = "5" -> 5 [] c = "6" -> 6 [] c = "7" -> 7 [] c = "8" -> 8 [] c = "9" -> 9

\* text.replace(/,/g, '')
RemoveCommas(s) == SelectSeq(s, LAMBDA c : c # ",")

\* the literal word w occurs in s at position i (case folded)
LitAt(s, i, w) ==
    /\ i >= 1
    /\ i + Len(w) - 1 <= Len(s)
    /\ \A k \in 1..Len(w) : Fold(s[i + k - 1]) = w[k]

\* \s* from position i: the position of the first character that is no white space
RECURSIVE SkipWs(_, _)
SkipWs(s, i) ==
    IF i <= Len(s) /\ IsSpace(s[i]) THEN SkipWs(s, i + 1) ELSE i

\* \d* from position i: the position of the first character that is no digit
RECURSIVE DigitsEnd(_, _)
DigitsEnd(s, i) ==
    IF i <= Len(s) /\ IsDigit(s[i]) THEN DigitsEnd(s, i + 1) ELSE i

\* \.\d{2} at position i
FractionAt(s, i) ==
    /\ i + 2 <= Len(s)
    /\ s[i] = "."
    /\ IsDigit(s[i + 1])
    /\ IsDigit(s[i + 2])

\* (?:CA\s*\$|CAD|USD|\$) at position i: the position after the marker, 0 if none
PrefixMarkerEnd(s, i) ==
    IF LitAt(s, i, <<"C", "A">>) /\ SkipWs(s, i + 2) <= Len(s) /\ s[SkipWs(s, i + 2)] = "$"
    THEN SkipWs(s, i + 2) + 1
    ELSE IF LitAt(s, i, <<"C", "A", "D">>) THEN i + 3
    ELSE IF LitAt(s, i, <<"U", "S", "D">>) THEN i + 3
    ELSE IF LitAt(s, i, <<"$">>) THEN i + 1
    ELSE 0

\* (?:CAD|USD) at position i
SuffixMarkerAt(s, i) ==
    LitAt(s, i, <<"C", "A", "D">>) \/ LitAt(s, i, <<"U", "S", "D">>)

\* first alternative at position i: <<from, to>> of group 1 (to exclusive), <<>> if no match.
\* Nothing follows the group, so the greedy choice stands: all the digits, and
\* the fraction when it is there.
Alt1At(s, i) ==
    LET j == PrefixMarkerEnd(s, i) IN
    IF j = 0 THEN <<>>
    ELSE LET k == SkipWs(s, j)
             m == DigitsEnd(s, k)
         IN  IF m = k THEN <<>>
             ELSE IF FractionAt(s, m) THEN <<k, m + 3>> ELSE <<k, m>>

\* the ends (exclusive) group 2 can take when it starts at i
Alt2Ends(s, i) ==
    LET m == DigitsEnd(s, i) IN
    {d \in (i + 1)..m : TRUE} \cup {d + 3 : d \in {e \in (i + 1)..m : FractionAt(s, e)}}

\* second alternative at position i: <<from, to>> of group 2, <<>> if no match.
\* Backtracking tries the longer capture first.
Alt2At(s, i) ==
    LET ok == {e \in Alt2Ends(s, i) : SuffixMarkerAt(s, SkipWs(s, e))} IN
    IF ok = {} THEN <<>>
    ELSE <<i, CHOOSE e \in ok : \A f \in ok : f <= e>>

\* the match of the whole pattern at position i (first alternative first)
MatchAt(s, i) ==
    IF Alt1At(s, i) # <<>> THEN Alt1At(s, i) ELSE Alt2At(s, i)

\* String.prototype.match without the flag g: the leftmost match
FirstMatch(s) ==
    LET hits == {i \in 1..Len(s) : MatchAt(s, i) # <<>>} IN
    IF hits = {} THEN <<>>
    ELSE MatchAt(s, CHOOSE i \in hits : \A h \in hits : i <= h)

\* the value of the digits s[from..to-1]
RECURSIVE IntOf(_, _, _)
IntOf(s, from, to) ==
    IF to <= from THEN 0
    ELSE IntOf(s, from, to - 1) * 10 + DigitVal(s[to - 1])

\* parseFloat of a capture \d+(\.\d{2})?, in cents
ParseFloatCents(s, from, to) ==
    IF to - from >= 4 /\ s[to - 3] = "."
    THEN IntOf(s, from, to - 3) * 100 + IntOf(s, to - 2, to)
    ELSE IntOf(s, from, to) * 100

parsePrice(t) ==
    IF t = <<>> THEN NoPrice
    ELSE LET normalized == RemoveCommas(t)
             match == FirstMatch(normalized)
         IN  IF match = <<>> THEN NoPrice
             ELSE ParseFloatCents(normalized, match[1], match[2])

----------------------------------------------------------------------------
(* The texts parsePrice is called on: a lead, a prefix marker, a gap, a     *)
(* number, a gap and a suffix marker, each possibly empty.                  *)

\* what precedes the price
Leads ==
    { <<>>,
      <<"F", "l", "i", "g", "h", "t", " ", "A", "C", "1", "2", "3">>,
      <<"F", "l", "i", "g", "h", "t", " ", "A", "C", "1", "2", "3", " ">>,
      <<"1", ",", " ">>,
      <<"A", "R">>,
      <<"S", "e", "a", "t", " ", "2", ",">>,
      <<"F", "l", "i", "g", "h", "t", " ", "A", "C", "1", "2", "3", ",", " ">> }

\* the marker before the number
PrefixMarkers ==
    { <<>>,
      <<"$">>,
      <<"C", "A", " ", "$">>,
      <<"C", "A", "D">>,
      <<"U", "S", "D">>,
      <<"c", "a", "d">> }

\* between marker and number
Gaps ==
    { <<>>,
      <<" ">> }

\* the number: well formed, or with a fraction of one or three digits
Numbers ==
    { <<>>,
      <<"9", "9", "9">>,
      <<"8", ",", "0", "0", "4">>,
      <<"1", ",", "2", "3", "4", ".", "5", "6">>,
      <<"1", "2", ".", "5">>,
      <<"1", "2", ".", "3", "4", "5">>,
      <<"0", ".", "5", "0">> }

\* the marker after the number
SuffixMarkers ==
    { <<>>,
      <<"C", "A", "D">>,
      <<"U", "S", "D">> }

ParseTexts ==
    { l \o p \o g \o n \o h \o q :
        l \in Leads, p \in PrefixMarkers, g \in Gaps, n \in Numbers, h \in Gaps,
        q \in SuffixMarkers }

ParseInit ==
    /\ text \in ParseTexts
    /\ parsed = "idle"
    /\ result = NoPrice

\* one call parsePrice(text)
ParseCall ==
    /\ parsed = "idle"
    /\ parsed' = "done"
    /\ result' = parsePrice(text)
    /\ UNCHANGED text

----------------------------------------------------------------------------
(* LoadingGuard: the state waits                                            *)

\* the step of the model's clock, ms
TickMs == 5000

RESULTS_CONTAINER_TIMEOUT == 45000
RESULTS_URL_TIMEOUT == 20000
RESULTS_ANY_TIMEOUT == 25000
HEADING_TIMEOUT == 30000
URL_TIMEOUT == 30000
\* playwright.config: timeout, the budget of a test
TEST_TIMEOUT == 120000

Targets == {"Results", "Review", "Passenger", "SeatOrOptions", "Options", "Payment"}

\* what the environment can show: the target's first signal (region or heading),
\* the second heading of waitForSeatSelectionOrOptionsReady, the URL, a flight row
Signals == {"primary", "second", "url", "rows"}

\* (a wait that helps itself: on a heading that does not show, its fallback
\* clicks the page's continue control)
HeadingThenUrlClicking ==
    << [signal |-> "primary", api |-> "locator.waitFor", timeoutMs |-> HEADING_TIMEOUT, stage |-> 1],
       [signal |-> "url", api |-> "locator.click", timeoutMs |-> URL_TIMEOUT, stage |-> 2] >>
HeadingThenUrlSlow ==
    << [signal |-> "primary", api |-> "locator.waitFor", timeoutMs |-> 3 * HEADING_TIMEOUT, stage |-> 1],
       [signal |-> "url", api |-> "page.waitForURL", timeoutMs |-> 3 * URL_TIMEOUT, stage |-> 2] >>
HeadingThenUrl ==
    << [signal |-> "primary", api |-> "locator.waitFor", timeoutMs |-> HEADING_TIMEOUT, stage |-> 1],
       [signal |-> "url", api |-> "page.waitForURL", timeoutMs |-> URL_TIMEOUT, stage |-> 2] >>

\* The detection strategies of a wait in their declared order.  stage is the try
\* block a strategy is awaited in: strategies of one stage are started together
\* (Promise.race), a later stage is the catch block of the one before.
Strategies(tg) ==
    CASE tg = "Results" ->
            << [signal |-> "primary", api |-> "locator.waitFor",
                timeoutMs |-> RESULTS_CONTAINER_TIMEOUT, stage |-> 1],
               [signal |-> "url", api |-> "page.waitForURL",
                timeoutMs |-> RESULTS_URL_TIMEOUT, stage |-> 2],
               [signal |-> "rows", api |-> "locator.waitFor",
                timeoutMs |-> RESULTS_ANY_TIMEOUT, stage |-> 3] >>
      [] tg = "SeatOrOptions" ->
            << [signal |-> "primary", api |-> "locator.waitFor",
                timeoutMs |-> HEADING_TIMEOUT, stage |-> 1],
               [signal |-> "second", api |-> "locator.waitFor",
                timeoutMs |-> HEADING_TIMEOUT, stage |-> 1],
               [signal |-> "url", api |-> "page.waitForURL",
                timeoutMs |-> URL_TIMEOUT, stage |-> 2] >>
      [] OTHER -> HeadingThenUrl

NumStrategies(tg) == Len(Strategies(tg))

NumStages(tg) == Strategies(tg)[NumStrategies(tg)].stage

\* the strategies of stage st, as indices into Strategies(tg)
StageArms(tg, st) == {k \in 1..NumStrategies(tg) : Strategies(tg)[k].stage = st}

\* ... in the order they are started
RECURSIVE SeqOfSet(_)
SeqOfSet(S) ==
    IF S = {} THEN <<>>
    ELSE LET m == CHOOSE x \in S : \A y \in S : x <= y
         IN  <<m>> \o SeqOfSet(S \ {m})

\* the first arm of a stage to reject ends the stage (Promise.race settles with
\* the first promise settled; a lone await is a race of one)
StageTimeout(tg, st) ==
    LET arms == StageArms(tg, st)
        first == CHOOSE k \in arms :
                    \A j \in arms : Strategies(tg)[k].timeoutMs <= Strategies(tg)[j].timeoutMs
    IN  Strategies(tg)[first].timeoutMs

\* the arm whose rejection ends the stage
StageFirstReject(tg, st) ==
    CHOOSE k \in StageArms(tg, st) :
        /\ Strategies(tg)[k].timeoutMs = StageTimeout(tg, st)
        /\ \A j \in StageArms(tg, st) :
              Strategies(tg)[j].timeoutMs = StageTimeout(tg, st) => k <= j

\* An error: its type, what its message names (about) and the time it states (ms)
NoError == [type |-> "none", about |-> "", ms |-> 0]

\* what Playwright throws when a wait expires:
\* "<api>: Timeout <timeout>ms exceeded."
TimeoutError(strategy) ==
    [type |-> "TimeoutError", about |-> strategy.api, ms |-> strategy.timeoutMs]

\* the catch block entered when stage st rejects: the stage waited in next
NextStageRetry(tg, st) == st
NextStage(tg, st) == st + 1

\* where the call stands after stage st has rejected: the last stage has no
\* try around it, so its rejection is the call's
AfterRejectSwallow(tg, st) == IF st < NumStages(tg) THEN "waiting" ELSE "ok"
AfterReject(tg, st) == IF st < NumStages(tg) THEN "waiting" ELSE "failed"

WaitInit ==
    /\ wpc = "idle"
    /\ target = "Results"
    /\ stage = 0
    /\ armStatus = [k \in 1..NumStrategies("Results") |-> "idle"]
    /\ attempts = <<>>
    /\ stageT = 0
    /\ elapsed = 0
    /\ winner = 0
    /\ werr = NoError
    /\ visible \in SUBSET Signals

\* a call LoadingGuard.waitFor<tg>Ready(page): the first try block is entered
WaitStart(tg) ==
    /\ wpc # "waiting"
    /\ wpc' = "waiting"
    /\ target' = tg
    /\ stage' = 1
    /\ armStatus' = [k \in 1..NumStrategies(tg) |->
                        IF k \in StageArms(tg, 1) THEN "waiting" ELSE "idle"]
    /\ attempts' = SeqOfSet(StageArms(tg, 1))
    /\ stageT' = 0
    /\ elapsed' = 0
    /\ winner' = 0
    /\ werr' = NoError

\* the call made against a page that does not change while the call starts
WaitCall(tg) == WaitStart(tg) /\ UNCHANGED visible

\* (a wait that does not see a signal which is there)
ObservingNothing == {}

\* the arms of the current stage whose signal is observable
Observing == {k \in StageArms(target, stage) : Strategies(target)[k].signal \in visible}

\* a wait of the current stage resolves: the call returns
WaitObserve ==
    /\ wpc = "waiting"
    /\ \E k \in Observing :
          /\ winner' = k
          /\ armStatus' = [armStatus EXCEPT ![k] = "observed"]
    /\ wpc' = "ok"
    /\ UNCHANGED <<target, stage, attempts, stageT, elapsed, werr, visible>>

\* time passes in the current stage, no signal of it being observable
WaitTick ==
    /\ wpc = "waiting"
    /\ Observing = {}
    /\ stageT + TickMs < StageTimeout(target, stage)
    /\ stageT' = stageT + TickMs
    /\ elapsed' = elapsed + TickMs
    /\ UNCHANGED <<wpc, target, stage, armStatus, attempts, winner, werr, visible>>

\* the current stage rejects: the catch block starts the next stage, or, from
\* the last stage, the rejection leaves the call
WaitExpire ==
    /\ wpc = "waiting"
    /\ Observing = {}
    /\ stageT + TickMs >= StageTimeout(target, stage)
    /\ elapsed' = elapsed + (StageTimeout(target, stage) - stageT)
    /\ wpc' = AfterReject(target, stage)
    /\ LET expired == {k \in StageArms(target, stage) :
                          Strategies(target)[k].timeoutMs <= StageTimeout(target, stage)}
       IN  IF stage < NumStages(target)
           THEN LET nx == NextStage(target, stage) IN
                /\ stage' = nx
                /\ armStatus' = [k \in 1..NumStrategies(target) |->
                                    IF k \in StageArms(target, nx) THEN "waiting"
                                    ELSE IF k \in expired THEN "expired"
                                    ELSE armStatus[k]]
                /\ attempts' = attempts \o SeqOfSet(StageArms(target, nx))
                /\ stageT' = 0
                /\ werr' = werr
           ELSE /\ armStatus' = [k \in 1..NumStrategies(target) |->
                                    IF k \in expired THEN "expired" ELSE armStatus[k]]
                /\ werr' = TimeoutError(Strategies(target)[StageFirstReject(target, stage)])
                /\ UNCHANGED <<stage, attempts, stageT>>
    /\ UNCHANGED <<target, winner, visible>>

\* the page changes: a signal appears or disappears
EnvToggle(sig) ==
    /\ visible' = IF sig \in visible THEN visible \ {sig} ELSE visible \cup {sig}
    /\ UNCHANGED <<wpc, target, stage, armStatus, attempts, stageT, elapsed, winner, werr>>

\* how many calls of one wait in a row are followed
MaxCalls == 2

HistInit == callNo = 0 /\ steady = {}

\* a call of a state wait, counted: a call for the target of the call before
\* it continues the row, a call for another target starts a new row
WaitCallCounted(tg) ==
    /\ WaitCall(tg)
    /\ (callNo > 0 /\ tg = target) => callNo < MaxCalls
    /\ IF callNo > 0 /\ tg = target
       THEN callNo' = callNo + 1 /\ steady' = steady
       ELSE callNo' = 1 /\ steady' = visible

\* the page changes; the signal that changed has not been observable throughout
EnvToggleTracked(sig) ==
    /\ EnvToggle(sig)
    /\ steady' = steady \ {sig}
    /\ UNCHANGED callNo

----------------------------------------------------------------------------
(* The state waits against the pages of the booking funnel                  *)

\* the pages of the funnel, in the order the flow passes them
FunnelPages == <<"home", "results", "review", "passenger", "seats", "options", "payment">>

\* the pages a wait is for
PagesOf(tg) ==
    CASE tg = "Results" -> {"results"}
      [] tg = "Review" -> {"review"}
      [] tg = "Passenger" -> {"passenger"}
      [] tg = "SeatOrOptions" -> {"seats", "options"}
      [] tg = "Options" -> {"options"}
      [] tg = "Payment" -> {"payment"}

\* the path words the waitForURL pattern of a wait accepts
UrlPattern(tg) ==
    CASE tg = "Results" -> {"search", "results", "booking", "bkmg"}
      [] tg = "Review" -> {"review", "booking"}
      [] tg = "Passenger" -> {"passenger", "contact", "traveler"}
      [] tg = "SeatOrOptions" -> {"seat", "options", "add-ons"}
      [] tg = "Options" -> {"options", "add-ons"}
      [] tg = "Payment" -> {"payment", "checkout", "billing"}

\* the path words a page may be served under: those the code expects for it,
\* which are the words of the pattern of the page's own wait
UrlsOf(pg) ==
    CASE pg = "home" -> {"home"}
      [] pg = "results" -> UrlPattern("Results")
      [] pg = "review" -> UrlPattern("Review")
      [] pg = "passenger" -> UrlPattern("Passenger")
      [] pg = "seats" -> {"seat"}
      [] pg = "options" -> UrlPattern("Options")
      [] pg = "payment" -> UrlPattern("Payment")

\* the signals of a wait that are observable on page pg served under u, its
\* headings and lists rendered (r) or not yet: a heading shows on its own page
\* only, the URL pattern matches wherever the path word is one of its words
SignalsShown(tg, pg, u, r) ==
    {sig \in Signals :
        \/ sig = "primary" /\ r
              /\ pg \in (IF tg = "SeatOrOptions" THEN {"seats"} ELSE PagesOf(tg))
        \/ sig = "second" /\ r /\ tg = "SeatOrOptions" /\ pg = "options"
        \/ sig = "url" /\ u \in UrlPattern(tg)
        \/ sig = "rows" /\ r /\ tg = "Results" /\ pg = "results"}

\* the pages that may follow a page (a fare without seat selection goes from
\* the passenger page to the options)
Following(pg) ==
    CASE pg = "home" -> {"results"}
      [] pg = "results" -> {"review"}
      [] pg = "review" -> {"passenger"}
      [] pg = "passenger" -> {"seats", "options"}
      [] pg = "seats" -> {"options"}
      [] pg = "options" -> {"payment"}
      [] pg = "payment" -> {}

PageInit ==
    /\ wpc = "idle" /\ target = "Results" /\ stage = 0
    /\ armStatus = [k \in 1..NumStrategies("Results") |-> "idle"]
    /\ attempts = <<>> /\ stageT = 0 /\ elapsed = 0 /\ winner = 0
    /\ werr = NoError /\ visible = {}
    /\ uiPage \in {FunnelPages[i] : i \in 1..Len(FunnelPages)}
    /\ url \in UrlsOf(uiPage)
    /\ rendered \in BOOLEAN
    /\ okOn = "none"

\* a wait is called on the page as it is
PageCall(tg) ==
    /\ WaitStart(tg)
    /\ visible' = SignalsShown(tg, uiPage, url, rendered)
    /\ okOn' = "none"
    /\ UNCHANGED <<uiPage, url, rendered>>

PageObserve ==
    /\ WaitObserve
    /\ okOn' = uiPage
    /\ UNCHANGED <<uiPage, url, rendered>>

PageTick == WaitTick /\ UNCHANGED uiVars

PageExpire == WaitExpire /\ UNCHANGED uiVars

\* the page finishes rendering
PageRender ==
    /\ ~rendered
    /\ rendered' = TRUE
    /\ visible' = IF wpc = "waiting"
                  THEN SignalsShown(target, uiPage, url, TRUE) ELSE visible
    /\ UNCHANGED <<uiPage, url, okOn>>
    /\ UNCHANGED <<wpc, target, stage, armStatus, attempts, stageT, elapsed, winner, werr>>

\* the navigation under way arrives: the browser shows the following page
PageAdvance ==
    /\ \E pg \in Following(uiPage) :
          /\ uiPage' = pg
          /\ \E u \in UrlsOf(pg) :
                /\ url' = u
                /\ visible' = IF wpc = "waiting"
                              THEN SignalsShown(target, pg, u, FALSE) ELSE visible
    /\ rendered' = FALSE
    /\ UNCHANGED okOn
    /\ UNCHANGED <<wpc, target, stage, armStatus, attempts, stageT, elapsed, winner, werr>>

----------------------------------------------------------------------------
(* FlightCardComponent: selection of the cheapest fare                      *)

\* the most candidates a page of the model shows
MaxCards == 3

\* A candidate, as the page shows it: ptext is the text of the control's parent
\* (for the legacy function: the text of the option itself), <<>> when it is
\* empty; gtext is the text of the grandparent; readable is FALSE when reading
\* a text of the candidate rejects (the element left the page after count()).
CardKinds ==
    { [ptext |-> <<"$", "1", "2", "0">>, gtext |-> <<>>, readable |-> TRUE],
      [ptext |-> <<"$", "9", "5">>, gtext |-> <<>>, readable |-> TRUE],
      [ptext |-> <<"$", "3", "0", "0">>, gtext |-> <<>>, readable |-> TRUE],
      [ptext |-> <<"S", "e", "l", "e", "c", "t">>,
       gtext |-> <<"C", "A", "D", " ", "9", "5", ".", "0", "0">>, readable |-> TRUE],
      [ptext |-> <<"B", "a", "s", "i", "c">>, gtext |-> <<"B", "a", "s", "i", "c">>,
       readable |-> TRUE],
      [ptext |-> <<>>, gtext |-> <<"F", "l", "i", "g", "h", "t", " ", "A", "C", "1", "2", "3">>,
       readable |-> TRUE],
      [ptext |-> <<>>, gtext |-> <<>>, readable |-> FALSE] }

RECURSIVE SeqsUpTo(_, _)
SeqsUpTo(S, n) ==
    IF n = 0 THEN {<<>>}
    ELSE LET shorter == SeqsUpTo(S, n - 1)
         IN  shorter \cup {Append(q, x) : q \in {r \in shorter : Len(r) = n - 1}, x \in S}

\* Where the first visible text "Lowest" of the page sits: card = 0, there is
\* none; otherwise it marks candidate card, and nested tells whether it lies in
\* a wrapper of its own, so that its parent element holds no button.
NoLowest == [card |-> 0, nested |-> FALSE]

LowestPlaces(n) ==
    {NoLowest} \cup [card : 1..n, nested : BOOLEAN]

NoSelError == [type |-> "none", cause |-> ""]

\* the price extracted for a candidate
\*   visible: textContent of the parent, .catch(() => ''); when it is empty or
\*            holds no price, textContent of the grandparent, .catch(() => '')
\*   legacy:  textContent of the option; no text, no price
CardPrice(f, card) ==
    IF f = "visible"
    THEN IF card.ptext = <<>> \/ parsePrice(card.ptext) = NoPrice
         THEN parsePrice(card.gtext)
         ELSE parsePrice(card.ptext)
    ELSE IF card.ptext = <<>> THEN NoPrice ELSE parsePrice(card.ptext)

\* Array.prototype.sort with (a, b) => a.price - b.price: ascending and stable
RECURSIVE InsertByPrice(_, _)
InsertByPriceUnstable(sorted, x) ==
    IF sorted = <<>> THEN <<x>>
    ELSE IF x.price <= sorted[1].price THEN <<x>> \o sorted
    ELSE <<sorted[1]>> \o InsertByPrice(Tail(sorted), x)
InsertByPrice(sorted, x) ==
    IF sorted = <<>> THEN <<x>>
    ELSE IF x.price < sorted[1].price THEN <<x>> \o sorted
    ELSE <<sorted[1]>> \o InsertByPrice(Tail(sorted), x)

RECURSIVE SortFrom(_, _)
SortFromAsPushed(fd, acc) == acc \o fd
SortFrom(fd, acc) ==
    IF fd = <<>> THEN acc ELSE SortFrom(Tail(fd), InsertByPrice(acc, fd[1]))

SortByPriceUnsorted(fd) == fd
SortByPrice(fd) == SortFrom(fd, <<>>)

\* the clicks the loop body issues on candidate i: none
SamplingClicksEager(cl, i) == Append(cl, [kind |-> "select", cand |-> i])
SamplingClicks(cl, i) == cl

\* The candidate clicked when no candidate has a price; 0 when the control to
\* click does not exist.
\*   visible: getByText(/Lowest/i).first(), if visible: the first button named
\*            /select/i inside its parent; otherwise selectButtons.first()
\*   legacy:  fareOptions.first()
FallbackTarget(f, low) ==
    IF f = "visible"
    THEN IF low.card = 0 THEN 1
         ELSE IF low.nested THEN 0
         ELSE low.card
    ELSE 1

FallbackPolicy(f, low) ==
    IF f = "visible" /\ low.card # 0 THEN "badge" ELSE "positional"

\* what a call does when it counts no candidate
\*   visible: clicks the first button whose name contains "select"
\*   legacy:  throws Error('No fare options found in flight card')
OnEmptyAlwaysClick(f) == "click"
OnEmpty(f) == IF f = "visible" THEN "click" ELSE "throw"

\* CardPrice, tabulated over the candidates of the model
PriceTable == [f \in {"visible", "legacy"} |-> [c \in CardKinds |-> CardPrice(f, c)]]

SelInit ==
    /\ fn \in {"visible", "legacy"}
    /\ cabin \in (IF fn = "visible" THEN {"none", "Economy"} ELSE {"none"})
    /\ staleScope \in (IF cabin = "none" THEN {FALSE} ELSE BOOLEAN)
    /\ cards \in SeqsUpTo(CardKinds, MaxCards)
    /\ lowestAt \in LowestPlaces(Len(cards))
    /\ looseSelect \in (IF fn = "visible" /\ cards = <<>> THEN BOOLEAN ELSE {FALSE})
    /\ spc = "start"
    /\ count = 0
    /\ idx = 0
    /\ sampled = <<>>
    /\ fareData = <<>>
    /\ clicks = <<>>
    /\ policy = "none"
    /\ serr = NoSelError

SelFail(cause) ==
    /\ spc' = "failed"
    /\ serr' = [type |-> "TimeoutError", cause |-> cause]

\* selectCabinTab: click the tab of the cabin, then wait for the first button
\* "Select" to be visible
SelCabinTab ==
    /\ spc = "start"
    /\ fn = "visible"
    /\ cabin # "none"
    /\ \E tabOk \in BOOLEAN :
          IF ~tabOk
          THEN SelFail("tab not actionable") /\ UNCHANGED clicks
          ELSE /\ clicks' = Append(clicks, [kind |-> "tab", cand |-> 0])
               /\ IF cards = <<>>
                  THEN SelFail("no Select visible")
                  ELSE spc' = "count" /\ UNCHANGED serr
    /\ UNCHANGED <<fn, cabin, staleScope, cards, lowestAt, looseSelect, count, idx, sampled, fareData,
                   policy>>

\* count(), and the branch count === 0
SelCount ==
    /\ \/ spc = "count"
       \/ spc = "start" /\ (fn = "legacy" \/ cabin = "none")
    /\ count' = Len(cards)
    /\ IF Len(cards) > 0
       THEN /\ spc' = "sample"
            /\ idx' = 1
            /\ UNCHANGED <<clicks, policy, serr>>
       ELSE /\ UNCHANGED idx
            /\ IF OnEmpty(fn) = "throw"
               THEN /\ spc' = "failed"
                    /\ serr' = [type |-> "Error", cause |-> "No fare options found in flight card"]
                    /\ UNCHANGED <<clicks, policy>>
               ELSE \E clickOk \in BOOLEAN :
                       IF looseSelect /\ clickOk
                       THEN /\ clicks' = Append(clicks, [kind |-> "loose", cand |-> 0])
                            /\ policy' = "loose"
                            /\ spc' = "ok"
                            /\ UNCHANGED serr
                       ELSE /\ SelFail(IF looseSelect THEN "not actionable" ELSE "no element")
                            /\ UNCHANGED <<clicks, policy>>
    /\ UNCHANGED <<fn, cabin, staleScope, cards, lowestAt, looseSelect, sampled, fareData>>

\* what the loop does when reading the text of a candidate rejects
\*   visible: textContent().catch(() => ''): the text is taken as empty
\*   legacy:  await option.textContent() is not guarded: the rejection leaves
\*            the call
OnUnreadable(f) == IF f = "visible" THEN "empty" ELSE "throw"

\* one turn of the loop over the candidates
SelSample ==
    /\ spc = "sample"
    /\ idx <= count
    /\ IF ~cards[idx].readable /\ OnUnreadable(fn) = "throw"
       THEN /\ SelFail("textContent")
            /\ UNCHANGED <<sampled, fareData, clicks, idx>>
       ELSE /\ LET price == PriceTable[fn][cards[idx]] IN
               /\ sampled' = Append(sampled, price)
               /\ fareData' = IF price # NoPrice
                              THEN Append(fareData, [cand |-> idx, price |-> price])
                              ELSE fareData
            /\ clicks' = SamplingClicks(clicks, idx)
            /\ idx' = idx + 1
            /\ UNCHANGED <<spc, serr>>
    /\ UNCHANGED <<fn, cabin, staleScope, cards, lowestAt, looseSelect, count, policy>>

\* after the loop: the fallback when fareData is empty, else sort and click
\* fareData[0]
SelPick ==
    /\ spc = "sample"
    /\ idx > count
    /\ LET chosen == IF fareData = <<>> THEN FallbackTarget(fn, lowestAt)
                     ELSE SortByPrice(fareData)[1].cand
           how == IF fareData = <<>> THEN FallbackPolicy(fn, lowestAt) ELSE "ranked"
       IN  \E clickOk \in BOOLEAN :
              /\ policy' = how
              /\ IF chosen # 0 /\ clickOk
                 THEN /\ clicks' = Append(clicks, [kind |-> "select", cand |-> chosen])
                      /\ spc' = "ok"
                      /\ UNCHANGED serr
                 ELSE /\ SelFail(IF chosen = 0 THEN "no element" ELSE "not actionable")
                      /\ UNCHANGED clicks
    /\ UNCHANGED <<fn, cabin, staleScope, cards, lowestAt, looseSelect, count, idx, sampled, fareData>>

\* the list of candidates turned round
Reversed(sq) == [i \in 1..Len(sq) |-> sq[Len(sq) + 1 - i]]

\* the page re-renders the list while the call samples it (the inbound list
\* replacing the outbound one, a sort or filter taking effect): the same
\* number of candidates in another order.  The locators kept in fareData are
\* positions of the list, selectButtons.nth(i), resolved anew by each call
\* made on them.
SelRerender ==
    /\ spc = "sample"
    /\ cards' = Reversed(cards)
    /\ cards' # cards
    /\ UNCHANGED <<fn, cabin, staleScope, lowestAt, looseSelect, spc, count, idx, sampled,
                   fareData, clicks, policy, serr>>

----------------------------------------------------------------------------
(* The texts the sampling loop reads: textContent of the parent and of the  *)
(* grandparent of a Select button, in a DOM of fare cards                   *)

\* the name of the button
SelectLabel == <<"S", "e", "l", "e", "c", "t">>

\* what a fare card says of its own fare: a price, or a label without one
OwnTexts ==
    { <<"E", "c", "o", " ", "$", "9", "5">>,
      <<"F", "l", "e", "x", " ", "$", "1", "2", "0">>,
      <<"B", "a", "s", "i", "c", " ">> }

\* textContent of an element is the text of its descendants in document order
RECURSIVE ConcatAll(_)
ConcatAll(texts) ==
    IF texts = <<>> THEN <<>> ELSE Head(texts) \o ConcatAll(Tail(texts))

\* textContent of the card of option i: its own text and its button
CardText(ownTexts, i) == ownTexts[i] \o SelectLabel

\* selectButton.locator('..').textContent()
ParentText(lay, ownTexts, i) ==
    IF lay = "nested" THEN SelectLabel ELSE CardText(ownTexts, i)

\* selectButton.locator('../..').textContent(): the card in the nested layout,
\* the list of all cards in the flat one
GrandparentText(lay, ownTexts, i) ==
    IF lay = "nested" THEN CardText(ownTexts, i)
    ELSE ConcatAll([j \in 1..Len(ownTexts) |-> CardText(ownTexts, j)])

\* the candidate the loop sees in option i
DomCard(lay, ownTexts, i) ==
    [ptext |-> ParentText(lay, ownTexts, i),
     gtext |-> GrandparentText(lay, ownTexts, i),
     readable |-> TRUE]

DomInit ==
    /\ layout \in {"nested", "flat"}
    /\ own \in SeqsUpTo(OwnTexts, MaxCards) \ {<<>>}
    /\ dpc = "sample"
    /\ di = 1
    /\ recorded = <<>>

\* one turn of the loop: the price taken from the parent's text or, that one
\* holding none, from the grandparent's
DomSample ==
    /\ dpc = "sample"
    /\ di <= Len(own)
    /\ recorded' = Append(recorded, CardPrice("visible", DomCard(layout, own, di)))
    /\ di' = di + 1
    /\ UNCHANGED <<layout, own, dpc>>

DomLoopEnd ==
    /\ dpc = "sample"
    /\ di > Len(own)
    /\ dpc' = "done"
    /\ UNCHANGED <<layout, own, di, recorded>>

----------------------------------------------------------------------------
(* CookieGuard.acceptIfPresent and acceptConsentIfPresent                   *)

\* the step of the clock of the consent calls, ms
CookieTickMs == 1000

PRIMARY_WAIT == 8000
CLICK_TIMEOUT == 3000
GRACE_MS == 1500
SECONDARY_WAIT == 3000
CONSENT_CLICK_TIMEOUT == 5000

\* getAcceptLocators, in the order of the array; acceptConsentIfPresent has the
\* one locator getByRole('button', ...)
AcceptLocators(f) ==
    IF f = "guard" THEN <<"id", "button", "link", "dialog">> ELSE <<"button">>

NumLocators(f) == Len(AcceptLocators(f))

\* what the accept control of a banner matches: OneTrust (the id, a button
\* "Accept all", inside a dialog), a plain button, a link, a control that only
\* the dialog-scoped text filter finds
BannerKinds == {{"id", "button", "dialog"}, {"button"}, {"link"}, {"dialog"}}

\* The elements of the page a locator resolves to.  The button locator matches
\* by name /accept all|accept|agree|allow all|allow|ok|continue|yes/i, which a
\* button "Continue", "OK" or "Yes" of the page itself satisfies too.
Matches(kind) ==
    (IF banner = "present" /\ kind \in bannerLocs THEN {"banner"} ELSE {})
    \cup (IF kind = "button" /\ pageControl THEN {"page"} ELSE {})

NoCookieError == [type |-> "none"]

\* the timeout of the wait in progress
\*   guard: waitFor({ timeout: waitTimeoutMs }), 8_000 then 3_000
\*   util:  click({ timeout: 5_000 })
Budget(f, sc) ==
    IF f = "util" THEN CONSENT_CLICK_TIMEOUT
    ELSE IF sc = 1 THEN PRIMARY_WAIT ELSE SECONDARY_WAIT

\* the current wait can end well: guard, the locator is visible; util, the
\* button is visible and takes the click
Ready ==
    LET kind == AcceptLocators(cfn)[loc] IN
    /\ Matches(kind) # {}
    /\ cfn = "util" => ~blocked

\* acceptIfPresent: if (accepted) return; else the delay and the second scan
SecondScanAlways(acc) == TRUE
SecondScanNeeded(acc) == ~acc

\* tryAcceptOnce after a click that landed: return true
AfterClickOkContinue == "continue"
AfterClickOk == "return"

\* tryAcceptOnce, the catch block: continue
OnRejectThrow == "throw"
OnReject == "continue"

\* where the call stands after a scan returned acc
FinishScan(acc) ==
    [cpc |-> IF cfn = "guard" /\ scan = 1 /\ SecondScanNeeded(acc) THEN "grace" ELSE "done",
     loc |-> loc, newProbe |-> FALSE, acc |-> <<acc>>, err |-> NoCookieError]

\* ... after the wait or the click on the current locator rejected with e
AfterRejected(e) ==
    IF OnReject = "throw"
    THEN [cpc |-> "failed", loc |-> loc, newProbe |-> FALSE, acc |-> <<>>, err |-> e]
    ELSE IF loc < NumLocators(cfn)
    THEN [cpc |-> "probe", loc |-> loc + 1, newProbe |-> TRUE, acc |-> <<>>,
          err |-> NoCookieError]
    ELSE FinishScan(FALSE)

\* ... after the click on the current locator landed
AfterClicked ==
    IF AfterClickOk = "return" THEN FinishScan(TRUE)
    ELSE AfterRejected(NoCookieError)

\* the call moves to c, addMs later
CookieGoto(c, addMs) ==
    /\ cpc' = c.cpc
    /\ loc' = c.loc
    /\ probes' = IF c.newProbe THEN Append(probes, [scan |-> scan, loc |-> c.loc]) ELSE probes
    /\ accepted' = accepted \o c.acc
    /\ cerr' = c.err
    /\ cret' = IF c.cpc = "done" THEN "undefined" ELSE cret
    /\ cT' = 0
    /\ cElapsed' = cElapsed + addMs
    /\ UNCHANGED <<cfn, scan, graces, closed, probesAtAbort>>

CookieIdle ==
    /\ cfn = "guard" /\ cpc = "idle" /\ scan = 0 /\ loc = 0 /\ cT = 0 /\ cElapsed = 0
    /\ probes = <<>> /\ cclicks = <<>> /\ graces = 0 /\ accepted = <<>>
    /\ cret = "none" /\ cerr = NoCookieError
    /\ banner = "absent" /\ bannerLocs = {} /\ blocked = FALSE /\ pageControl = FALSE
    /\ everBanner = FALSE /\ navigated = FALSE /\ closed = FALSE /\ probesAtAbort = 0

CookieInit ==
    /\ cfn \in {"guard", "util"}
    /\ cpc = "idle" /\ scan = 0 /\ loc = 0 /\ cT = 0 /\ cElapsed = 0
    /\ probes = <<>> /\ cclicks = <<>> /\ graces = 0 /\ accepted = <<>>
    /\ cret = "none" /\ cerr = NoCookieError
    /\ banner \in {"absent", "present"}
    /\ bannerLocs \in BannerKinds
    /\ blocked \in BOOLEAN
    /\ pageControl \in BOOLEAN
    /\ everBanner = (banner = "present")
    /\ navigated = FALSE /\ closed = FALSE /\ probesAtAbort = 0

\* the call: the first scan starts waiting for the first locator
CookieCall ==
    /\ cpc = "idle"
    /\ cpc' = "probe"
    /\ scan' = 1
    /\ loc' = 1
    /\ probes' = <<[scan |-> 1, loc |-> 1]>>
    /\ UNCHANGED <<cfn, cT, cElapsed, cclicks, graces, accepted, cret, cerr, banner,
                   bannerLocs, blocked, pageControl, everBanner, navigated, closed,
                   probesAtAbort>>

CookieTimeout(ms) == [type |-> "TimeoutError", ms |-> ms]

TargetClosed == [type |-> "TargetClosedError"]

\* The locator waited for is visible.  guard: waitFor resolves and the click is
\* awaited; it lands, or it rejects after 3_000 when the control does not take
\* it.  util: the click lands.
CookieFound ==
    /\ cpc = "probe"
    /\ ~closed
    /\ Ready
    /\ \E on \in Matches(AcceptLocators(cfn)[loc]) :
          IF ~blocked
          THEN /\ cclicks' = Append(cclicks, [scan |-> scan, loc |-> loc, on |-> on])
               /\ banner' = IF on = "banner" THEN "absent" ELSE banner
               /\ pageControl' = IF on = "page" THEN FALSE ELSE pageControl
               /\ navigated' = (navigated \/ on = "page")
               /\ CookieGoto(AfterClicked, 0)
          ELSE /\ CookieGoto(AfterRejected(CookieTimeout(CLICK_TIMEOUT)), CLICK_TIMEOUT)
               /\ UNCHANGED <<cclicks, banner, pageControl, navigated>>
    /\ UNCHANGED <<bannerLocs, blocked, everBanner>>

\* time passes in the current wait
CookieTick ==
    /\ cpc = "probe"
    /\ ~closed
    /\ ~Ready
    /\ cT + CookieTickMs < Budget(cfn, scan)
    /\ cT' = cT + CookieTickMs
    /\ cElapsed' = cElapsed + CookieTickMs
    /\ UNCHANGED <<cfn, cpc, scan, loc, probes, cclicks, graces, accepted, cret, cerr,
                   banner, bannerLocs, blocked, pageControl, everBanner, navigated, closed,
                   probesAtAbort>>

\* the current wait rejects with a TimeoutError, which the catch block takes
CookieExpire ==
    /\ cpc = "probe"
    /\ ~closed
    /\ ~Ready
    /\ cT + CookieTickMs >= Budget(cfn, scan)
    /\ LET rest == Budget(cfn, scan) - cT IN
       IF cfn = "guard"
       THEN CookieGoto(AfterRejected(CookieTimeout(Budget(cfn, scan))), rest)
       ELSE CookieGoto(FinishScan(FALSE), rest)
    /\ UNCHANGED <<cclicks, banner, bannerLocs, blocked, pageControl, everBanner, navigated>>

\* acceptIfPresent: waitForTimeout(1_500), then the second scan starts
CookieGrace ==
    /\ cpc = "grace"
    /\ ~closed
    /\ cElapsed' = cElapsed + GRACE_MS
    /\ graces' = graces + 1
    /\ scan' = 2
    /\ loc' = 1
    /\ cT' = 0
    /\ probes' = Append(probes, [scan |-> 2, loc |-> 1])
    /\ cpc' = "probe"
    /\ UNCHANGED <<cfn, cclicks, accepted, cret, cerr, banner, bannerLocs, blocked,
                   pageControl, everBanner, navigated, closed, probesAtAbort>>

\* the page: the banner renders, or goes away by itself
BannerToggle ==
    /\ cpc \in {"probe", "grace"}
    /\ banner' = IF banner = "absent" THEN "present" ELSE "absent"
    /\ everBanner' = TRUE
    /\ UNCHANGED <<cfn, cpc, scan, loc, cT, cElapsed, probes, cclicks, graces, accepted,
                   cret, cerr, bannerLocs, blocked, pageControl, navigated, closed,
                   probesAtAbort>>

\* the page: the matched control becomes covered or free
BlockedToggle ==
    /\ cpc \in {"probe", "grace"}
    /\ blocked' = ~blocked
    /\ UNCHANGED <<cfn, cpc, scan, loc, cT, cElapsed, probes, cclicks, graces, accepted,
                   cret, cerr, banner, bannerLocs, pageControl, everBanner, navigated,
                   closed, probesAtAbort>>

\* the test timeout of the runner, or a teardown, closes the page during a wait
CookieAbort ==
    /\ cpc \in {"probe", "grace"}
    /\ ~closed
    /\ closed' = TRUE
    /\ probesAtAbort' = Len(probes)
    /\ UNCHANGED <<cfn, cpc, scan, loc, cT, cElapsed, probes, cclicks, graces, accepted,
                   cret, cerr, banner, bannerLocs, blocked, pageControl, everBanner,
                   navigated>>

\* On a closed page every wait rejects at once.  Inside tryAcceptOnce and
\* acceptConsentIfPresent the catch block takes the rejection; waitForTimeout is
\* awaited outside any try.
CookieClosedReject ==
    /\ closed
    /\ \/ /\ cpc = "probe"
          /\ IF cfn = "guard" THEN CookieGoto(AfterRejected(TargetClosed), 0)
             ELSE CookieGoto(FinishScan(FALSE), 0)
       \/ /\ cpc = "grace"
          /\ cpc' = "failed"
          /\ cerr' = TargetClosed
          /\ UNCHANGED <<cfn, scan, loc, cT, cElapsed, probes, graces, accepted, cret,
                         closed, probesAtAbort>>
    /\ UNCHANGED <<cclicks, banner, bannerLocs, blocked, pageControl, everBanner, navigated>>


----------------------------------------------------------------------------
(* BookingFlow: the five steps of the smoke tests.  A step of the model is  *)
(* one awaited call on the page; the flow is the sequence of these calls in *)
(* the order the methods issue them.  A state wait is taken as a whole here *)
(* (it succeeds on a page that shows one of its signals); its strategies    *)
(* are the subject of the wait actions above.                               *)

NoPage == "none"

\* one awaited call: page is the page the control or element belongs to,
\* dest the pages the action leads to ({}: it does not navigate), skip the
\* number of following steps left out when a check gives false
Step(op, arg, page, dest, skip) ==
    [op |-> op, arg |-> arg, page |-> page, dest |-> dest, skip |-> skip]

\* options.cabin ?? 'Economy'
DefaultCabin(c) == IF c = "none" THEN "Economy" ELSE c

CookieGuardAcceptIfPresent == << Step("guard", "acceptIfPresent", "any", {}, 0) >>

HomePageGoto == << Step("goto", "/", "home", {}, 0) >>

\* fillOrigin, fillDestination, selectDepartureAndReturnDates, search
HomePageStartSearch ==
    << Step("fill", "origin", "home", {}, 0),
       Step("fill", "destination", "home", {}, 0),
       Step("click", "travelDates", "home", {}, 0),
       Step("click", "searchButton", "home", {"results"}, 0) >>

StartSearchFromHome ==
    HomePageGoto \o CookieGuardAcceptIfPresent \o HomePageStartSearch
        \o CookieGuardAcceptIfPresent

ResultsEnsureLoaded == << Step("wait", "Results", "results", {}, 0) >>

ResultsFiltersOpen ==
    << Step("click", "filtersButton", "results", {}, 0),
       Step("waitEl", "stopsOptionsContainer", "results", {}, 0) >>

SetMaxStopsOnly ==
    << Step("click", "maxOneStopRadio", "results", {}, 0),
       Step("click", "doneButton", "results", {}, 0) >>

ApplyMaxStopsFilter == SetMaxStopsOnly \o << Step("wait", "Results", "results", {}, 0) >>

\* first row, fare section, the optional expand trigger, the cheapest fare of
\* the cabin; dest is where the fare's Select leads (the inbound list of a
\* return trip is the results page again)
SelectFirstResultAndCheapestFare(c, dest) ==
    << Step("click", "firstRow", "results", {}, 0),
       Step("waitEl", "fareSection", "results", {}, 0),
       Step("check", "selectFareBelow", "results", {}, 2),
       Step("click", "selectFareBelow", "results", {}, 0),
       Step("waitEl", "fareSection", "results", {}, 0),
       Step("select", DefaultCabin(c), "results", dest, 0) >>

SelectFirstCardCheapestFareOneWay(c) == SelectFirstResultAndCheapestFare(c, {"review"})

\* (a return trip booked like a one-way trip)
SelectReturnTripOnce(c) == SelectFirstResultAndCheapestFare(c, {"review"})

SelectFirstCardCheapestFareReturnTrip(c) ==
    SelectFirstResultAndCheapestFare(c, {"results"})
        \o << Step("wait", "Results", "results", {}, 0) >>
        \o SelectFirstResultAndCheapestFare(c, {"review"})

\* (flights selected before the filter is applied)
SelectThenFilter(tripType) ==
    ResultsEnsureLoaded
        \o (IF tripType = "return"
            THEN SelectFirstCardCheapestFareReturnTrip("none")
            ELSE SelectFirstCardCheapestFareOneWay("none"))
        \o ResultsFiltersOpen \o ApplyMaxStopsFilter

FilterAndSelectFlightMax1Stop(tripType) ==
    ResultsEnsureLoaded \o ResultsFiltersOpen \o ApplyMaxStopsFilter
        \o (IF tripType = "return"
            THEN SelectFirstCardCheapestFareReturnTrip("none")
            ELSE SelectFirstCardCheapestFareOneWay("none"))

ProceedThroughReviewPassenger ==
    << Step("wait", "Review", "review", {}, 0) >>
        \o CookieGuardAcceptIfPresent
        \o << Step("click", "reviewContinue", "review", {"passenger"}, 0),
              Step("wait", "Passenger", "passenger", {}, 0) >>
        \o CookieGuardAcceptIfPresent
        \o << Step("fill", "passengerInfo", "passenger", {}, 0),
              Step("click", "passengerContinue", "passenger", {"seats", "options"}, 0) >>

\* (a seat step that goes on to click whatever the heading check said)
SkipSeatsUnconditionally ==
    << Step("check", "seatHeading", "seats", {}, 0),
       Step("check", "nextFlightButton", "seats", {}, 2),
       Step("click", "nextFlightButton", "seats", {}, 0),
       Step("sleep", "waitForTimeout", "any", {}, 0),
       Step("click", "continueToOptionsButton", "seats", {"options"}, 0),
       Step("wait", "Options", "options", {}, 0) >>

SkipSeatsAndContinueToOptions ==
    << Step("check", "seatHeading", "seats", {}, 5),
       Step("check", "nextFlightButton", "seats", {}, 2),
       Step("click", "nextFlightButton", "seats", {}, 0),
       Step("sleep", "waitForTimeout", "any", {}, 0),
       Step("click", "continueToOptionsButton", "seats", {"options"}, 0),
       Step("wait", "Options", "options", {}, 0) >>

SkipSeatsAndReachOptions ==
    SkipSeatsAndContinueToOptions \o CookieGuardAcceptIfPresent
        \o << Step("wait", "Options", "options", {}, 0) >>

\* (a flow that takes the word of waitForPaymentReady)
ContinueToPaymentUrlOnly ==
    << Step("click", "continueToPaymentButton", "options", {"payment"}, 0) >>
        \o CookieGuardAcceptIfPresent
        \o << Step("wait", "Payment", "payment", {}, 0) >>

\* assertLoaded: waitForPaymentReady, then the heading's own waitFor
ContinueToPaymentAndAssert ==
    << Step("click", "continueToPaymentButton", "options", {"payment"}, 0) >>
        \o CookieGuardAcceptIfPresent
        \o << Step("wait", "Payment", "payment", {}, 0),
              Step("waitEl", "paymentHeading", "payment", {}, 0) >>

\* the test body: the five steps of the flow
Program(tripType) ==
    StartSearchFromHome \o FilterAndSelectFlightMax1Stop(tripType)
        \o ProceedThroughReviewPassenger \o SkipSeatsAndReachOptions
        \o ContinueToPaymentAndAssert

Cur == Program(trip)[fpc]

Running == fstatus = "running" /\ fpc <= Len(Program(trip))

\* the flow goes on n steps further
Advance(n) ==
    /\ fpc' = fpc + n
    /\ fstatus' = IF fpc + n > Len(Program(trip)) THEN "done" ELSE "running"

Logged(res) ==
    flog' = Append(flog, [op |-> Cur.op, arg |-> Cur.arg, on |-> uiPage,
                          awaited |-> awaited, res |-> res])

\* the pages that have a button of their own whose name the guard's button
\* pattern (accept|agree|allow|ok|continue|yes) matches
GuardMatchedPages == {"review", "passenger", "seats", "options", "payment"}

FlowInit ==
    /\ trip \in {"return", "oneway"}
    /\ fpc = 1
    /\ fstatus = "running"
    /\ flog = <<>>
    /\ pendingNav = NoPage
    /\ awaited = TRUE
    /\ uiPage = "blank" /\ url = "blank" /\ rendered = TRUE /\ okOn = "none"

\* page.goto('/') resolves when the home page has loaded
FlowGoto ==
    /\ Running /\ Cur.op = "goto"
    /\ uiPage' = "home" /\ url' = "home" /\ rendered' = TRUE
    /\ pendingNav' = NoPage
    /\ awaited' = TRUE
    /\ Logged("ok") /\ Advance(1)
    /\ UNCHANGED <<trip, okOn>>

\* CookieGuard.acceptIfPresent: nothing of the page touched (no click, or the
\* click on the banner's accept control), or a button of the page itself
\* clicked; the page may react to the latter by navigating
FlowGuard ==
    /\ Running /\ Cur.op = "guard"
    /\ \E hit \in {"overlay"} \cup
                  (IF uiPage \in GuardMatchedPages THEN {"page"} ELSE {}) :
          /\ Logged(hit)
          /\ IF hit = "page" /\ pendingNav = NoPage
             THEN pendingNav' \in {NoPage} \cup Following(uiPage)
             ELSE pendingNav' = pendingNav
    /\ Advance(1)
    /\ UNCHANGED <<trip, awaited, uiVars>>

FlowFill ==
    /\ Running /\ Cur.op = "fill"
    /\ uiPage = Cur.page
    /\ Logged("ok") /\ Advance(1)
    /\ UNCHANGED <<trip, pendingNav, awaited, uiVars>>

FlowClick ==
    /\ Running /\ Cur.op = "click"
    /\ uiPage = Cur.page
    /\ IF Cur.dest = {}
       THEN UNCHANGED <<pendingNav, awaited>>
       ELSE pendingNav' \in Cur.dest /\ awaited' = FALSE
    /\ Logged("ok") /\ Advance(1)
    /\ UNCHANGED <<trip, uiVars>>

\* a state wait of LoadingGuard returns: one of its signals shows
FlowWait ==
    /\ Running /\ Cur.op = "wait"
    /\ SignalsShown(Cur.arg, uiPage, url, rendered) # {}
    /\ awaited' = TRUE
    /\ Logged("ok") /\ Advance(1)
    /\ UNCHANGED <<trip, pendingNav, uiVars>>

\* a wait for one element of a page
FlowWaitEl ==
    /\ Running /\ Cur.op = "waitEl"
    /\ uiPage = Cur.page /\ rendered
    /\ Logged("ok") /\ Advance(1)
    /\ UNCHANGED <<trip, pendingNav, awaited, uiVars>>

\* isVisible(): what the page shows at this instant
FlowCheck ==
    /\ Running /\ Cur.op = "check"
    /\ \E v \in (IF uiPage = Cur.page /\ rendered
                 THEN (IF Cur.arg = "seatHeading" THEN {TRUE} ELSE BOOLEAN)
                 ELSE {FALSE}) :
          /\ Logged(IF v THEN "true" ELSE "false")
          /\ Advance(IF v THEN 1 ELSE 1 + Cur.skip)
    /\ UNCHANGED <<trip, pendingNav, awaited, uiVars>>

\* page.waitForTimeout
FlowSleep ==
    /\ Running /\ Cur.op = "sleep"
    /\ Logged("ok") /\ Advance(1)
    /\ UNCHANGED <<trip, pendingNav, awaited, uiVars>>

\* selectCheapestFareInVisibleSection clicks a fare's Select
FlowSelect ==
    /\ Running /\ Cur.op = "select"
    /\ uiPage = Cur.page
    /\ pendingNav' \in Cur.dest
    /\ awaited' = FALSE
    /\ Logged("ok") /\ Advance(1)
    /\ UNCHANGED <<trip, uiVars>>

\* the step in progress rejects (its timeout passes, the selection throws):
\* the rejection leaves the flow.  Only the click on the optional trigger has
\* its rejection swallowed, and it is issued on the page just waited on.
FlowFail ==
    /\ Running
    /\ \/ Cur.op \in {"click", "fill"} /\ uiPage # Cur.page /\ Cur.arg # "selectFareBelow"
       \/ Cur.op = "waitEl" /\ ~(uiPage = Cur.page /\ rendered)
       \/ Cur.op = "wait" /\ SignalsShown(Cur.arg, uiPage, url, rendered) = {}
       \/ Cur.op = "select"
    /\ fstatus' = "failed"
    /\ Logged("failed")
    /\ UNCHANGED <<trip, fpc, pendingNav, awaited, uiVars>>

\* the path words the pages of the site under test are served under: the
\* results page under /search or /booking, every other page under the word
\* of its name
SiteUrlsOf(pg) ==
    IF pg = "results" THEN {"search", "booking"}
    ELSE UrlsOf(pg) \cap {"home", "review", "passenger", "seat", "options", "payment"}

\* the navigation under way arrives
FlowArrive ==
    /\ fstatus = "running"
    /\ pendingNav # NoPage
    /\ uiPage' = pendingNav
    /\ url' \in SiteUrlsOf(pendingNav)
    /\ rendered' = FALSE
    /\ pendingNav' = NoPage
    /\ UNCHANGED <<trip, fpc, fstatus, flog, awaited, okOn>>

\* the page shown finishes rendering
FlowRender ==
    /\ fstatus = "running"
    /\ ~rendered
    /\ rendered' = TRUE
    /\ UNCHANGED <<uiPage, url, okOn, flowVars>>

----------------------------------------------------------------------------
(* rollForwardIfPast: the dates of the search fixture                       *)

NoDate == [year |-> 0, month |-> 0, day |-> 0]

\* the years of the dates the function is called on, and of the clock
MinYear == 2023
MaxYear == 2028

IsLeap(y) == (y % 4 = 0 /\ y % 100 # 0) \/ y % 400 = 0

DaysIn(y, m) ==
    IF m = 2 THEN (IF IsLeap(y) THEN 29 ELSE 28)
    ELSE IF m \in {4, 6, 9, 11} THEN 30 ELSE 31

\* the valid calendar dates of a range of years
DatesOf(years) ==
    {[year |-> y, month |-> m, day |-> d] :
        y \in years, m \in 1..12, d \in 1..31} \ 
    {dt \in [year : years, month : 1..12, day : 1..31] : dt.day > DaysIn(dt.year, dt.month)}

\* the Date made of a year, a month and a day of 1..31: a day past the end of
\* the month runs over into the next month, as new Date and setFullYear do
DateOf(y, m, d) ==
    IF d <= DaysIn(y, m) THEN [year |-> y, month |-> m, day |-> d]
    ELSE IF m = 12 THEN [year |-> y + 1, month |-> 1, day |-> d - DaysIn(y, m)]
    ELSE [year |-> y, month |-> m + 1, day |-> d - DaysIn(y, m)]

\* target.setFullYear(y)
SetFullYear(dt, y) == DateOf(y, dt.month, dt.day)

\* a date is earlier than another
DateBefore(a, b) ==
    \/ a.year < b.year
    \/ a.year = b.year /\ a.month < b.month
    \/ a.year = b.year /\ a.month = b.month /\ a.day < b.day

\* target < today: target is a local midnight, today the time of the call
TargetBeforeToday(dt, now) ==
    \/ DateBefore(dt, now)
    \/ dt.year = now.year /\ dt.month = now.month /\ dt.day = now.day /\ now.ms > 0

\* the times the function is called at: midnight and noon of a few days
Clock ==
    {[year |-> dt.year, month |-> dt.month, day |-> dt.day, ms |-> ms] :
        dt \in {dd \in DatesOf(MinYear..MaxYear) :
                   /\ dd.year \in {MinYear + 3, MinYear + 4}
                   /\ dd.month \in {2, 3, 11}
                   /\ dd.day \in {1, 14, 28}},
        ms \in {0, 43200000}}

\* const target = new Date(year, month - 1, day); const today = new Date()
RollInit ==
    /\ rIn \in DatesOf(MinYear..MaxYear)
    /\ rNow \in Clock
    /\ rTarget = DateOf(rIn.year, rIn.month, rIn.day)
    /\ rpc = "loop"
    /\ rOut = NoDate
    /\ rIters = 0

\* the body of the while loop
RollStep ==
    /\ rpc = "loop"
    /\ TargetBeforeToday(rTarget, rNow)
    /\ rTarget' = SetFullYear(rTarget, rTarget.year + 1)
    /\ rIters' = rIters + 1
    /\ UNCHANGED <<rpc, rIn, rNow, rOut>>

\* the loop is left: the parts of target are returned
RollReturn ==
    /\ rpc = "loop"
    /\ ~TargetBeforeToday(rTarget, rNow)
    /\ rOut' = rTarget
    /\ rpc' = "done"
    /\ UNCHANGED <<rIn, rNow, rTarget, rIters>>

----------------------------------------------------------------------------
(* Specifications                                                           *)

ParseIdle == /\ text = <<>> /\ parsed = "idle" /\ result = NoPrice

WaitIdle ==
    /\ wpc = "idle" /\ target = "Results" /\ stage = 0
    /\ armStatus = [k \in 1..NumStrategies("Results") |-> "idle"]
    /\ attempts = <<>> /\ stageT = 0 /\ elapsed = 0 /\ winner = 0
    /\ werr = NoError /\ visible = {}

HistIdle == callNo = 0 /\ steady = {}

UiIdle == uiPage = "home" /\ url = "home" /\ rendered = FALSE /\ okOn = "none"

FlowIdle ==
    /\ trip = "return" /\ fpc = 1 /\ fstatus = "idle" /\ flog = <<>>
    /\ pendingNav = "none" /\ awaited = TRUE

RollIdle ==
    /\ rpc = "idle" /\ rIn = NoDate /\ rTarget = NoDate /\ rOut = NoDate
    /\ rNow = [year |-> 0, month |-> 0, day |-> 0, ms |-> 0] /\ rIters = 0

DomIdle ==
    /\ layout = "nested" /\ own = <<>> /\ dpc = "idle" /\ di = 0 /\ recorded = <<>>

MoreIdle == RollIdle /\ DomIdle

AuxIdle == HistIdle /\ UiIdle /\ FlowIdle /\ MoreIdle

SelIdle ==
    /\ fn = "visible" /\ cabin = "none" /\ staleScope = FALSE /\ cards = <<>> /\ lowestAt = NoLowest
    /\ looseSelect = FALSE /\ spc = "idle" /\ count = 0 /\ idx = 0
    /\ sampled = <<>> /\ fareData = <<>> /\ clicks = <<>> /\ policy = "none"
    /\ serr = NoSelError

\* parsePrice over the texts of ParseTexts
ParseNext == ParseCall /\ UNCHANGED <<waitVars, selVars, cookieVars, auxVars>>
InitParse == ParseInit /\ WaitIdle /\ SelIdle /\ CookieIdle /\ AuxIdle
SpecParse == InitParse /\ [][ParseNext]_vars

\* the state waits, against a page whose signals come and go
WaitNext ==
    \/ (\E tg \in Targets : WaitCallCounted(tg)) /\ UNCHANGED <<parseVars, selVars, cookieVars, uiVars, flowVars, moreVars>>
    \/ WaitObserve /\ UNCHANGED <<parseVars, selVars, cookieVars, auxVars>>
    \/ WaitTick /\ UNCHANGED <<parseVars, selVars, cookieVars, auxVars>>
    \/ WaitExpire /\ UNCHANGED <<parseVars, selVars, cookieVars, auxVars>>
    \/ (\E sig \in Signals : EnvToggleTracked(sig)) /\ UNCHANGED <<parseVars, selVars, cookieVars, uiVars, flowVars, moreVars>>
InitWait == WaitInit /\ HistInit /\ UiIdle /\ FlowIdle /\ ParseIdle /\ SelIdle /\ CookieIdle /\ MoreIdle
SpecWait == InitWait /\ [][WaitNext]_vars

\* the state waits, against the pages of the funnel
PageNext ==
    \/ (\E tg \in Targets : PageCall(tg)) /\ UNCHANGED <<parseVars, selVars, cookieVars, histVars, flowVars, moreVars>>
    \/ PageObserve /\ UNCHANGED <<parseVars, selVars, cookieVars, histVars, flowVars, moreVars>>
    \/ PageTick /\ UNCHANGED <<parseVars, selVars, cookieVars, histVars, flowVars, moreVars>>
    \/ PageExpire /\ UNCHANGED <<parseVars, selVars, cookieVars, histVars, flowVars, moreVars>>
    \/ PageRender /\ UNCHANGED <<parseVars, selVars, cookieVars, histVars, flowVars, moreVars>>
    \/ PageAdvance /\ UNCHANGED <<parseVars, selVars, cookieVars, histVars, flowVars, moreVars>>
InitWaitOnPage == PageInit /\ HistIdle /\ FlowIdle /\ ParseIdle /\ SelIdle /\ CookieIdle /\ MoreIdle
SpecWaitOnPage == InitWaitOnPage /\ [][PageNext]_vars

\* the booking flow of the smoke tests, against the pages of the funnel
FlowNext ==
    \/ FlowGoto /\ UNCHANGED <<parseVars, waitVars, selVars, cookieVars, histVars, moreVars>>
    \/ FlowGuard /\ UNCHANGED <<parseVars, waitVars, selVars, cookieVars, histVars, moreVars>>
    \/ FlowFill /\ UNCHANGED <<parseVars, waitVars, selVars, cookieVars, histVars, moreVars>>
    \/ FlowClick /\ UNCHANGED <<parseVars, waitVars, selVars, cookieVars, histVars, moreVars>>
    \/ FlowWait /\ UNCHANGED <<parseVars, waitVars, selVars, cookieVars, histVars, moreVars>>
    \/ FlowWaitEl /\ UNCHANGED <<parseVars, waitVars, selVars, cookieVars, histVars, moreVars>>
    \/ FlowCheck /\ UNCHANGED <<parseVars, waitVars, selVars, cookieVars, histVars, moreVars>>
    \/ FlowSleep /\ UNCHANGED <<parseVars, waitVars, selVars, cookieVars, histVars, moreVars>>
    \/ FlowSelect /\ UNCHANGED <<parseVars, waitVars, selVars, cookieVars, histVars, moreVars>>
    \/ FlowFail /\ UNCHANGED <<parseVars, waitVars, selVars, cookieVars, histVars, moreVars>>
    \/ FlowArrive /\ UNCHANGED <<parseVars, waitVars, selVars, cookieVars, histVars, moreVars>>
    \/ FlowRender /\ UNCHANGED <<parseVars, waitVars, selVars, cookieVars, histVars, moreVars>>
InitFlow == FlowInit /\ HistIdle /\ ParseIdle /\ WaitIdle /\ SelIdle /\ CookieIdle /\ MoreIdle
SpecFlow == InitFlow /\ [][FlowNext]_vars

\* rollForwardIfPast, called on a date at some time
RollNext ==
    \/ RollStep /\ UNCHANGED <<parseVars, waitVars, selVars, cookieVars, histVars, uiVars, flowVars, domVars>>
    \/ RollReturn /\ UNCHANGED <<parseVars, waitVars, selVars, cookieVars, histVars, uiVars, flowVars, domVars>>
InitRoll == RollInit /\ ParseIdle /\ WaitIdle /\ SelIdle /\ CookieIdle
               /\ HistIdle /\ UiIdle /\ FlowIdle /\ DomIdle
SpecRoll == InitRoll /\ [][RollNext]_vars

\* the sampling loop over the cards of a DOM
DomNext ==
    \/ DomSample /\ UNCHANGED <<parseVars, waitVars, selVars, cookieVars, histVars, uiVars, flowVars, rollVars>>
    \/ DomLoopEnd /\ UNCHANGED <<parseVars, waitVars, selVars, cookieVars, histVars, uiVars, flowVars, rollVars>>
InitDom == DomInit /\ ParseIdle /\ WaitIdle /\ SelIdle /\ CookieIdle
              /\ HistIdle /\ UiIdle /\ FlowIdle /\ RollIdle
SpecDom == InitDom /\ [][DomNext]_vars

\* one call of selectCheapestFareInVisibleSection or selectCheapestFare
SelNext ==
    \/ SelCabinTab /\ UNCHANGED <<parseVars, waitVars, cookieVars, auxVars>>
    \/ SelCount /\ UNCHANGED <<parseVars, waitVars, cookieVars, auxVars>>
    \/ SelSample /\ UNCHANGED <<parseVars, waitVars, cookieVars, auxVars>>
    \/ SelPick /\ UNCHANGED <<parseVars, waitVars, cookieVars, auxVars>>
InitSelect == SelInit /\ ParseIdle /\ WaitIdle /\ CookieIdle /\ AuxIdle
SpecSelect == InitSelect /\ [][SelNext]_vars

\* ... on a page that re-renders its list during the call
SelRerenderNext ==
    \/ SelNext
    \/ SelRerender /\ UNCHANGED <<parseVars, waitVars, cookieVars, auxVars>>
InitSelectRerender == SelInit /\ ParseIdle /\ WaitIdle /\ CookieIdle /\ AuxIdle
SpecSelectRerender == InitSelectRerender /\ [][SelRerenderNext]_vars

\* one consent call, against a page whose banner comes and goes
CookieNext ==
    \/ CookieCall /\ UNCHANGED <<parseVars, waitVars, selVars, auxVars>>
    \/ CookieFound /\ UNCHANGED <<parseVars, waitVars, selVars, auxVars>>
    \/ CookieTick /\ UNCHANGED <<parseVars, waitVars, selVars, auxVars>>
    \/ CookieExpire /\ UNCHANGED <<parseVars, waitVars, selVars, auxVars>>
    \/ CookieGrace /\ UNCHANGED <<parseVars, waitVars, selVars, auxVars>>
    \/ BannerToggle /\ UNCHANGED <<parseVars, waitVars, selVars, auxVars>>
    \/ BlockedToggle /\ UNCHANGED <<parseVars, waitVars, selVars, auxVars>>
InitCookie == CookieInit /\ ParseIdle /\ WaitIdle /\ SelIdle /\ AuxIdle
SpecCookie == InitCookie /\ [][CookieNext]_vars

\* the same, the page being closed at some time of the call
CookieAbortNext ==
    \/ CookieNext
    \/ CookieAbort /\ UNCHANGED <<parseVars, waitVars, selVars, auxVars>>
    \/ CookieClosedReject /\ UNCHANGED <<parseVars, waitVars, selVars, auxVars>>
InitCookieAbort == CookieInit /\ ParseIdle /\ WaitIdle /\ SelIdle /\ AuxIdle
SpecCookieAbort == InitCookieAbort /\ [][CookieAbortNext]_vars

----------------------------------------------------------------------------
(* Properties of the state waits                                            *)

ArmIdx == 1..NumStrategies(target)

StageOf(k) == Strategies(target)[k].stage

\* the time stages 1..st take when each of them expires
RECURSIVE SumTimeouts(_, _)
SumTimeouts(tg, st) ==
    IF st = 0 THEN 0 ELSE SumTimeouts(tg, st - 1) + StageTimeout(tg, st)

\* the strategies started so far are the first ones of the declared order, each once
AttemptsInOrder ==
    /\ \A i \in 1..Len(attempts) : attempts[i] = i
    /\ \A k \in ArmIdx : armStatus[k] # "idle" <=> k <= Len(attempts)

\* success is the winner's, no strategy of a later stage was started, and the
\* call took the expired stages in full plus a part of the winner's
SuccessIsFirstObserved ==
    wpc = "ok" =>
        /\ winner \in ArmIdx
        /\ armStatus[winner] = "observed"
        /\ \A k \in ArmIdx : StageOf(k) > StageOf(winner) => armStatus[k] = "idle"
        /\ \A k \in ArmIdx : StageOf(k) < StageOf(winner) => armStatus[k] = "expired"
        /\ elapsed >= SumTimeouts(target, StageOf(winner) - 1)
        /\ elapsed <= SumTimeouts(target, StageOf(winner))

SteadyArms == {k \in ArmIdx : Strategies(target)[k].signal \in steady}

\* the first stage that has a strategy of SteadyArms
FirstSteadyStage ==
    CHOOSE st \in 1..NumStages(target) :
        /\ \E k \in SteadyArms : StageOf(k) = st
        /\ \A k \in SteadyArms : StageOf(k) >= st

C23_NoWaitLeftPending ==
    wpc \in {"ok", "failed"} => \A k \in ArmIdx : armStatus[k] # "waiting"

\* the Playwright calls that act on the page, and those that only observe it
ActingApis == {"locator.click", "locator.fill", "locator.press", "locator.check",
               "page.goto", "page.reload", "page.goBack"}
ObservingApis == {"locator.waitFor", "page.waitForURL"}

\* the calls a state wait has issued on the page so far, in order
CallsIssued == [i \in 1..Len(attempts) |-> Strategies(target)[attempts[i]].api]

\* C22: a state wait never acts on the UI: whether it is still waiting, has
\* succeeded or has failed, every call it issued on the page observes
\* (waitFor, waitForURL); none clicks, fills or navigates.
C22_WaitsOnlyObserve ==
    wpc # "idle" =>
        \A i \in 1..Len(CallsIssued) :
            CallsIssued[i] \in ObservingApis /\ CallsIssued[i] \notin ActingApis

\* C22, witness: waitForPassengerReady has failed after both of its strategies,
\* and all it did on the page was waitFor and waitForURL
C22_Witness ==
    /\ wpc = "failed"
    /\ target = "Passenger"
    /\ CallsIssued = <<"locator.waitFor", "page.waitForURL">>

\* the place of a page in the funnel
FunnelRank(pg) == CHOOSE i \in 1..Len(FunnelPages) : FunnelPages[i] = pg

\* C30: a state wait for a page succeeds only when the browser shows that
\* page: never while it still shows an earlier page of the funnel, whatever
\* that page's URL.
C30_SucceedsOnlyOnItsPage ==
    wpc = "ok" /\ okOn # "none" =>
        \E pg \in PagesOf(target) : FunnelRank(okOn) >= FunnelRank(pg)

----------------------------------------------------------------------------
(* Properties of the consent calls                                          *)

\* the clicks that landed during scan sc
ClicksOfScan(sc) == SelectSeq(cclicks, LAMBDA c : c.scan = sc)

\* no affordance was visible at any time of the call: no banner, and no button
\* of the page that the button locator matches
NothingEverVisible == ~everBanner /\ ~pageControl /\ ~navigated

\* C11: a scan of tryAcceptOnce waits for the locators in the order id, button,
\* link, dialog-scoped text; a click lands on the locator being waited for, at
\* most once per scan, and no locator after it is waited for in that scan.
C11_OrderedScan ==
    cfn = "guard" =>
        /\ AcceptLocators(cfn) = <<"id", "button", "link", "dialog">>
        /\ \A i \in 1..Len(probes) :
              probes[i].loc = (IF i > 1 /\ probes[i - 1].scan = probes[i].scan
                               THEN probes[i - 1].loc + 1 ELSE 1)
        /\ \A sc \in 1..2 : Len(ClicksOfScan(sc)) <= 1
        /\ \A i \in 1..Len(cclicks) :
              /\ \E j \in 1..Len(probes) :
                    probes[j] = [scan |-> cclicks[i].scan, loc |-> cclicks[i].loc]
              /\ \A j \in 1..Len(probes) :
                    probes[j].scan = cclicks[i].scan => probes[j].loc <= cclicks[i].loc

\* C11, witness: the banner's control is a link; the scan waited for the id and
\* the button in vain and clicked the link, the fourth locator never waited for
C11_Witness ==
    /\ cfn = "guard"
    /\ cpc = "done"
    /\ probes = <<[scan |-> 1, loc |-> 1], [scan |-> 1, loc |-> 2], [scan |-> 1, loc |-> 3]>>
    /\ cclicks = <<[scan |-> 1, loc |-> 3, on |-> "banner"]>>

C14_AbsentWithinWindows ==
    (cfn = "guard" /\ cpc = "done" /\ NothingEverVisible) =>
        /\ cerr = NoCookieError
        /\ cclicks = <<>>
        /\ cElapsed <= PRIMARY_WAIT + GRACE_MS + SECONDARY_WAIT

\* C15: without a consent banner the call clicks nothing and leaves the page as
\* it is; the controls of the page are not activated by it.
C15_NoOpWithoutBanner ==
    ~everBanner => (cclicks = <<>> /\ ~navigated)

\* C17: once the page is closed during a wait, the call fails at once with an
\* error that is not a TimeoutError: no further locator is waited for, and the
\* call does not return normally.
C17_AbortFailsAtOnce ==
    closed =>
        /\ Len(probes) = probesAtAbort
        /\ cpc # "done"
        /\ cpc = "failed" => cerr.type \notin {"none", "TimeoutError"}

\* C28: no operation waits by sleeping a fixed time: a call is never suspended
\* in waitForTimeout, every wait of it ends on its signal or on its timeout.
C28_NoFixedSleep ==
    cpc # "grace" /\ graces = 0

----------------------------------------------------------------------------
(* Properties of parsePrice.  What a text says is read off the text as it   *)
(* is written, commas included: a currency marker standing as a word of its *)
(* own, next to a number written in full.                                   *)

IsLetter(c) == ~IsDigit(c) /\ c \notin {" ", "$", ",", "."}

\* the end of the number written from position i: digits, with commas and
\* points as long as a digit follows them
RECURSIVE NumRunEnd(_, _)
NumRunEnd(s, i) ==
    IF /\ i <= Len(s)
       /\ \/ IsDigit(s[i])
          \/ s[i] \in {",", "."} /\ i + 1 <= Len(s) /\ IsDigit(s[i + 1])
    THEN NumRunEnd(s, i + 1)
    ELSE i

\* a number starts at position k (and is no tail of a longer one)
NumStartsAt(s, k) ==
    /\ k >= 1
    /\ k <= Len(s)
    /\ IsDigit(s[k])
    /\ k = 1 \/ ~(IsDigit(s[k - 1]) \/ s[k - 1] \in {",", "."})

\* thousands groups ",ddd" from position p: the position after the last one
RECURSIVE GroupsEnd(_, _)
GroupsEnd(s, p) ==
    IF /\ p + 3 <= Len(s)
       /\ s[p] = ","
       /\ IsDigit(s[p + 1]) /\ IsDigit(s[p + 2]) /\ IsDigit(s[p + 3])
       /\ ~(p + 4 <= Len(s) /\ IsDigit(s[p + 4]))
    THEN GroupsEnd(s, p + 4)
    ELSE p

\* s[k..e-1] is well formed: digits, or one to three digits and groups of
\* three, then nothing or a point and exactly two digits
WellFormedNumber(s, k, e) ==
    LET d == DigitsEnd(s, k)
        g == IF d - k <= 3 THEN GroupsEnd(s, d) ELSE d
    IN  /\ d > k
        /\ \/ g = e
           \/ FractionAt(s, g) /\ g + 3 = e

\* the value of the well-formed number s[k..e-1], in cents
NumberValue(s, k, e) ==
    LET digits == RemoveCommas(SubSeq(s, k, e - 1))
    IN  ParseFloatCents(digits, 1, Len(digits) + 1)

\* a marker of letters at position i is a word of its own
WordStartsAt(s, i) == ~IsLetter(s[i]) \/ i = 1 \/ ~IsLetter(s[i - 1])

\* the price written at position i with its marker in front, NoPrice if none
PrefixPriceAt(s, i) ==
    LET j == PrefixMarkerEnd(s, i) IN
    IF j = 0 \/ ~WordStartsAt(s, i) THEN NoPrice
    ELSE LET k == SkipWs(s, j)
             e == NumRunEnd(s, k)
         IN  IF NumStartsAt(s, k) /\ WellFormedNumber(s, k, e)
             THEN NumberValue(s, k, e)
             ELSE NoPrice

\* the price written at position i with its marker behind, NoPrice if none
SuffixPriceAt(s, i) ==
    IF ~NumStartsAt(s, i) THEN NoPrice
    ELSE LET e == NumRunEnd(s, i)
             m == SkipWs(s, e)
         IN  IF /\ WellFormedNumber(s, i, e)
                /\ SuffixMarkerAt(s, m)
                /\ ~(m + 3 <= Len(s) /\ IsLetter(s[m + 3]))
             THEN NumberValue(s, i, e)
             ELSE NoPrice

WrittenPriceAt(s, i) ==
    IF PrefixPriceAt(s, i) # NoPrice THEN PrefixPriceAt(s, i) ELSE SuffixPriceAt(s, i)

WrittenPriceStarts(s) == {i \in 1..Len(s) : WrittenPriceAt(s, i) # NoPrice}

\* the first price written in the text, NoPrice if it writes none
FirstWrittenPrice(s) ==
    IF WrittenPriceStarts(s) = {} THEN NoPrice
    ELSE WrittenPriceAt(s, CHOOSE i \in WrittenPriceStarts(s) :
                               \A h \in WrittenPriceStarts(s) : i <= h)

\* C8, as claimed: for every text that holds a currency marker next to a
\* well-formed number, parsePrice returns that number, the first such in the text.
C8_ReturnsFirstWrittenPrice ==
    (parsed = "done" /\ FirstWrittenPrice(text) # NoPrice) =>
        result = FirstWrittenPrice(text)

\* C9, as claimed: parsePrice returns a number only if the text holds that
\* number, well formed, next to a currency marker; for a text without marker, or
\* with a malformed number at the marker, it returns null.
C9_ReturnsOnlyWrittenPrices ==
    (parsed = "done" /\ result # NoPrice) =>
        \E i \in WrittenPriceStarts(text) : WrittenPriceAt(text, i) = result

----------------------------------------------------------------------------
(* Properties of the selection                                              *)

Finished == spc \in {"ok", "failed"}

\* the call failed because the page refused a click on a control that exists
Refused == spc = "failed" /\ serr.cause \in {"not actionable", "tab not actionable"}

\* the call failed because the text of a candidate could not be read (C20)
ReadFailed == spc = "failed" /\ serr.cause = "textContent"

\* the clicks issued on controls that select a fare
SelectClicks == SelectSeq(clicks, LAMBDA c : c.kind # "tab")

\* the candidate whose control was clicked
Clicked == clicks[Len(clicks)].cand

\* the candidates of the page that yield a price
PricedCards == {i \in 1..Len(cards) : PriceTable[fn][cards[i]] # NoPrice}

\* ... and those of the lowest price
CheapestCards ==
    {i \in PricedCards :
        \A j \in PricedCards : PriceTable[fn][cards[i]] <= PriceTable[fn][cards[j]]}

\* C3: when a candidate yields a price, the control clicked is that of a
\* candidate whose price is at most the price of every priced candidate, in
\* selectCheapestFareInVisibleSection as in selectCheapestFare.
C3_ClicksCheapest ==
    (spc = "ok" /\ PricedCards # {}) =>
        /\ Len(sampled) = Len(cards)
        /\ \A i \in 1..Len(cards) : sampled[i] = PriceTable[fn][cards[i]]
        /\ Len(SelectClicks) = 1
        /\ clicks[Len(clicks)].kind = "select"
        /\ Clicked \in CheapestCards

\* C3, witness: prices 120, 95, 300; the candidate priced 95 is clicked
C3_Witness ==
    /\ spc = "ok"
    /\ sampled = <<12000, 9500, 30000>>
    /\ policy = "ranked"
    /\ clicks = <<[kind |-> "select", cand |-> 2]>>

\* C4: a call that succeeds has clicked exactly one fare control, the winner's,
\* as its last step; no fare control is clicked while candidates remain to be
\* sampled, whichever path (ranked, badge, positional) picks the winner.
C4_OneClickAfterSampling ==
    /\ \A i \in 1..Len(clicks) :
          clicks[i].kind # "tab" =>
              /\ i = Len(clicks)
              /\ spc = "ok"
              /\ count = Len(cards)
              /\ Len(sampled) = Len(cards)
    /\ spc = "ok" =>
          /\ Len(SelectClicks) = 1
          /\ Len(cards) > 0 =>
                /\ Clicked \in 1..Len(cards)
                /\ policy = "ranked" => Clicked \in CheapestCards
                /\ policy = "badge" => Clicked = lowestAt.card
                /\ policy = "positional" => Clicked = 1

\* C4, witness: with a cabin given, the tab is clicked, three candidates are
\* sampled, then one Select is clicked
C4_Witness ==
    /\ spc = "ok"
    /\ cabin = "Economy"
    /\ Len(sampled) = 3
    /\ policy = "ranked"
    /\ Len(clicks) = 2
    /\ clicks[1].kind = "tab"
    /\ clicks[2].kind = "select"

\* C5: the fallback is used only when no candidate yields a price; then the
\* candidate marked "Lowest" is the one selected, and the first candidate when
\* none is marked, in selectCheapestFareInVisibleSection as in selectCheapestFare
\* (a click the page refuses and a text that cannot be read set aside).
C5_BadgeThenFirst ==
    /\ policy \in {"badge", "positional"} => PricedCards = {}
    /\ (Finished /\ ~Refused /\ ~ReadFailed /\ count > 0 /\ PricedCards = {}) =>
          /\ spc = "ok"
          /\ Clicked = (IF lowestAt.card # 0 THEN lowestAt.card ELSE 1)

C7_AlwaysSelectsWhenNonEmpty ==
    (Finished /\ ~Refused /\ ~ReadFailed) =>
        /\ Len(cards) > 0 =>
              /\ spc = "ok"
              /\ Len(SelectClicks) = 1
              /\ Clicked \in 1..Len(cards)
        /\ spc = "failed" => cards = <<>>

\* C10: when several priced candidates share the lowest price, the first of
\* them in the order of the page is the one clicked.
C10_FirstOfTheCheapest ==
    (spc = "ok" /\ PricedCards # {}) =>
        /\ Clicked \in CheapestCards
        /\ \A j \in CheapestCards : Clicked <= j

\* C10, witness: two candidates share the lowest price and the earlier is clicked
C10_Witness ==
    /\ spc = "ok"
    /\ policy = "ranked"
    /\ \E j \in CheapestCards : j > Clicked
    /\ \E j \in PricedCards : j < Clicked

\* C18: with a cabin given, the tab is clicked first and sampling begins only
\* once the fares of that cabin are on the page; when they do not come the call
\* fails having clicked no Select; the fares of the cabin displayed before are
\* never sampled.  (The name of the error is left open here.)
C18_ScopeConfirmedBeforeSampling ==
    (fn = "visible" /\ cabin # "none") =>
        /\ sampled # <<>> => (clicks # <<>> /\ clicks[1].kind = "tab")
        /\ sampled # <<>> => ~staleScope
        /\ (spc = "failed" /\ sampled = <<>>) => SelectClicks = <<>>

\* a grouping of the sub-options into candidates (cards of consecutive
\* sub-options): the set of the positions after which a new card begins
Groupings == SUBSET (1..(Len(cards) - 1))

GroupOf(i, cuts) == 1 + Cardinality({c \in cuts : c < i})

\* the price that represents card g: the least price of its sub-options
GroupPrices(g, cuts) ==
    {PriceTable[fn][cards[i]] : i \in {j \in PricedCards : GroupOf(j, cuts) = g}}

C20_LocalFailureIsLocal ==
    (Finished /\ ~Refused /\ count > 0) =>
        /\ Len(sampled) = Len(cards)
        /\ Len(fareData) = Cardinality(PricedCards)
        /\ \A i \in 1..Len(fareData) :
              /\ fareData[i].cand \in PricedCards
              /\ fareData[i].price = PriceTable[fn][cards[fareData[i].cand]]
              /\ i > 1 => fareData[i - 1].cand < fareData[i].cand

----------------------------------------------------------------------------
(* Properties of the booking flow                                           *)

Entries == 1..Len(flog)

\* the entries of the log that are a given call, whatever its outcome
IsCall(e, op, arg) == e.op = op /\ e.arg = arg

\* pat is found in sq as a subsequence of calls that succeeded
RECURSIVE OccursInOrder(_, _)
OccursInOrder(pat, sq) ==
    IF pat = <<>> THEN TRUE
    ELSE IF sq = <<>> THEN FALSE
    ELSE IF IsCall(Head(sq), Head(pat)[1], Head(pat)[2]) /\ Head(sq).res = "ok"
         THEN OccursInOrder(Tail(pat), Tail(sq))
         ELSE OccursInOrder(pat, Tail(sq))

\* a click on a flight row or on a fare's Select
IsFlightClick(e) == e.op = "select" \/ IsCall(e, "click", "firstRow")

\* the calls that inspect or act on the page shown (the overlay guard aside)
PageCalls == {"check", "click", "fill", "select"}

\* C24: after each navigation-producing action of the flow a state wait
\* completes before the flow inspects or acts on the page: every isVisible
\* check, click, fill and selection is issued with the wait done (the calls of
\* the overlay guard are not counted).
C24_WaitBeforePageCalls ==
    \A i \in Entries : flog[i].op \in PageCalls => flog[i].awaited

\* C25: a click on a flight row or on a fare's Select is issued only after, in
\* this order, the results were ready, the filter was opened, "Max. 1 stop"
\* chosen, Done clicked and the results ready again.
C25_FilterBeforeSelection ==
    \A i \in Entries :
        IsFlightClick(flog[i]) =>
            OccursInOrder(<< <<"wait", "Results">>, <<"click", "filtersButton">>,
                             <<"waitEl", "stopsOptionsContainer">>,
                             <<"click", "maxOneStopRadio">>, <<"click", "doneButton">>,
                             <<"wait", "Results">> >>,
                          SubSeq(flog, 1, i - 1))

\* C25, witness: a one-way flow has clicked the Select of a fare
C25_Witness ==
    /\ trip = "oneway"
    /\ \E i \in Entries : flog[i].op = "select" /\ flog[i].res = "ok"

\* the runs of selectFirstResultAndCheapestFare that have selected a fare
Selections == {i \in Entries : flog[i].op = "select" /\ flog[i].res = "ok"}

\* the flow has left the flight selection behind
PastSelection == \E i \in Entries : IsCall(flog[i], "wait", "Review")

\* the entry where the run that ends in entry i began: the last click on the
\* first row before it
RunStart(i) ==
    CHOOSE r \in 1..i : /\ IsCall(flog[r], "click", "firstRow")
                        /\ \A q \in (r + 1)..i : ~IsCall(flog[q], "click", "firstRow")

\* C26: a return trip selects a fare exactly twice, the results awaited ready
\* in between, a one-way trip exactly once; each run clicks the first row,
\* waits for the fare section and then selects the cheapest fare of the
\* cabin, Economy as none is given.
C26_SelectionRuns ==
    /\ Cardinality(Selections) <= (IF trip = "return" THEN 2 ELSE 1)
    /\ PastSelection => Cardinality(Selections) = (IF trip = "return" THEN 2 ELSE 1)
    /\ \A i, j \in Selections :
          i < j => \E w \in (i + 1)..(j - 1) :
                      IsCall(flog[w], "wait", "Results") /\ flog[w].res = "ok"
    /\ \A i \in Selections :
          /\ flog[i].arg = "Economy"
          /\ \E r \in 1..(i - 1) : IsCall(flog[r], "click", "firstRow")
          /\ flog[RunStart(i)].res = "ok"
          /\ IsCall(flog[RunStart(i) + 1], "waitEl", "fareSection")
          /\ flog[RunStart(i) + 1].res = "ok"
          /\ \A q \in (RunStart(i) + 1)..(i - 1) : flog[q].op # "select"

\* C26, witness: a return trip has selected its two fares and waits for the
\* review page
C26_Witness ==
    /\ trip = "return"
    /\ Cardinality(Selections) = 2
    /\ PastSelection

\* C27: on the payment page nothing is clicked or filled by any operation of
\* the flow, the overlay guard included (a click of the guard on the consent
\* banner aside).
C27_NothingClickedOnPayment ==
    \A i \in Entries :
        flog[i].on = "payment" =>
            /\ ~(flog[i].op \in {"click", "fill", "select"} /\ flog[i].res = "ok")
            /\ ~(flog[i].op = "guard" /\ flog[i].res = "page")

\* the last call of the flow
LastEntry == flog[Len(flog)]

\* C33: the flow ends in success only with the payment heading observed: its
\* last call is the heading's own waitFor, resolved on the payment page with
\* the heading rendered; a run whose payment heading never shows, the URL
\* alone having satisfied waitForPaymentReady, ends in failure.
C33_SuccessMeansHeadingSeen ==
    /\ fstatus = "done" =>
          /\ IsCall(LastEntry, "waitEl", "paymentHeading")
          /\ LastEntry.res = "ok"
          /\ LastEntry.on = "payment"
          /\ uiPage = "payment" /\ rendered
    /\ \A i \in Entries :
          (IsCall(flog[i], "waitEl", "paymentHeading") /\ flog[i].res = "failed")
              => (fstatus = "failed" /\ i = Len(flog))

\* C33, witness: waitForPaymentReady has returned on a payment page whose
\* heading has not rendered (the URL matched), and the heading's own wait has
\* then failed the flow
C33_Witness ==
    /\ fstatus = "failed"
    /\ uiPage = "payment" /\ ~rendered
    /\ Len(flog) >= 2
    /\ IsCall(LastEntry, "waitEl", "paymentHeading")
    /\ IsCall(flog[Len(flog) - 1], "wait", "Payment") /\ flog[Len(flog) - 1].res = "ok"

\* the entry after which the seat step that began in entry c had returned:
\* the first call of the guard after it (past the end of the log: not yet)
SeatStepEnd(c) ==
    IF \E g \in (c + 1)..Len(flog) : flog[g].op = "guard"
    THEN CHOOSE g \in (c + 1)..Len(flog) :
            /\ flog[g].op = "guard"
            /\ \A h \in (c + 1)..(g - 1) : flog[h].op # "guard"
    ELSE Len(flog) + 1

\* the calls skipSeatsAndContinueToOptions issued after its heading check
SeatCalls(c) == (c + 1)..(SeatStepEnd(c) - 1)

\* C32: skipSeatsAndContinueToOptions issues no call after a heading check
\* that gave false; after one that gave true it clicks Next flight at most
\* once and only right after seeing it, clicks continue-to-options at most
\* once and nothing else, and has returned only with that one click done and
\* the options page then awaited ready; the flow goes on to the payment click
\* only from a wait that saw the options page.
C32_SeatStep ==
    /\ \A c \in Entries :
          IsCall(flog[c], "check", "seatHeading") =>
              /\ flog[c].res = "false" => SeatCalls(c) = {}
              /\ \A i \in SeatCalls(c) :
                    /\ flog[i].op \in {"click", "fill", "select"} =>
                          flog[i].arg \in {"nextFlightButton", "continueToOptionsButton"}
                    /\ IsCall(flog[i], "click", "nextFlightButton") =>
                          /\ IsCall(flog[i - 1], "check", "nextFlightButton")
                          /\ flog[i - 1].res = "true"
              /\ Cardinality({i \in SeatCalls(c) :
                                 IsCall(flog[i], "click", "nextFlightButton")}) <= 1
              /\ Cardinality({i \in SeatCalls(c) :
                                 IsCall(flog[i], "click", "continueToOptionsButton")}) <= 1
              /\ (flog[c].res = "true" /\ SeatStepEnd(c) <= Len(flog)) =>
                    /\ IsCall(flog[SeatStepEnd(c) - 1], "wait", "Options")
                    /\ flog[SeatStepEnd(c) - 1].res = "ok"
                    /\ flog[SeatStepEnd(c) - 1].on = "options"
                    /\ IsCall(flog[SeatStepEnd(c) - 2], "click", "continueToOptionsButton")
                    /\ flog[SeatStepEnd(c) - 2].res = "ok"
    /\ \A i \in Entries :
          IsCall(flog[i], "click", "continueToPaymentButton") =>
              /\ IsCall(flog[i - 1], "wait", "Options")
              /\ flog[i - 1].res = "ok"
              /\ flog[i - 1].on = "options"

\* C32, witness: the seat page was shown, Next flight seen and clicked, the
\* continue-to-options control clicked, and skipSeatsAndReachOptions has
\* returned: the flow has clicked on to the payment
C32_Witness ==
    /\ \E c \in Entries :
          /\ IsCall(flog[c], "check", "seatHeading") /\ flog[c].res = "true"
          /\ \E i \in SeatCalls(c) :
                IsCall(flog[i], "click", "nextFlightButton") /\ flog[i].res = "ok"
    /\ \E i \in Entries : IsCall(flog[i], "click", "continueToPaymentButton")

----------------------------------------------------------------------------
(* Properties of the selection on a page that re-renders                    *)

\* C29: the option that receives the click is the one that was sampled and
\* priced as the winner: when the call returns after a ranked click, the
\* option clicked carries the price recorded for the winner, whatever the list
\* did between the sampling and the click.
C29_ClickLandsOnPricedWinner ==
    (spc = "ok" /\ policy = "ranked") =>
        PriceTable[fn][cards[Clicked]] = SortByPrice(fareData)[1].price

----------------------------------------------------------------------------
(* Properties of rollForwardIfPast                                          *)

\* the years from the input's on in which the input's month and day make a
\* date that is not before the time of the call
GoodYears ==
    {y \in rIn.year..(rNow.year + 8) :
        /\ rIn.day <= DaysIn(y, rIn.month)
        /\ ~TargetBeforeToday([year |-> y, month |-> rIn.month, day |-> rIn.day], rNow)}

\* C34: the date returned is not before the time of the call, has the month
\* and the day of the input, and its year is the first one, from the input's
\* year on, for which that holds; a date not in the past comes back unchanged.
C34_RollsToFirstFutureYear ==
    rpc = "done" =>
        /\ ~TargetBeforeToday(rOut, rNow)
        /\ rOut.month = rIn.month /\ rOut.day = rIn.day
        /\ rOut.year \in GoodYears
        /\ \A y \in GoodYears : rOut.year <= y
        /\ (~TargetBeforeToday(rIn, rNow)) => rOut = rIn

----------------------------------------------------------------------------
(* Properties of the sampling loop over a DOM                               *)

\* the price the card of option i states for its own fare
OwnPrice(i) == parsePrice(own[i])

\* C31: the price recorded for an option is the price of its own card, also
\* when it is read from the grandparent's text: an option whose card states
\* no price is recorded without one, never with the price of another card.
C31_RecordedPriceIsOwn ==
    \A i \in 1..Len(recorded) : recorded[i] = OwnPrice(i)

====
